---- MODULE Spec2Model ----
(***************************************************************************)
(* Model of the SuperCollider VS Code extension's interpreter supervisor   *)
(* (client extension.ts): the module-level handle `sclangProcess`, the two *)
(* output channels, the start / stop / execute commands, the warm-up timer *)
(* and the child-process observers (error, data, exit); and of the block    *)
(* command, which picks the fragment of the document to execute from the   *)
(* selection, the enclosing parentheses or the line of the cursor.         *)
(*                                                                         *)
(* Text is modelled as a sequence of one-character strings, so that trim,  *)
(* split and concatenation are computed as the code computes them.         *)
(***************************************************************************)
EXTENDS Integers, Sequences, FiniteSets, TLC

(***************************************************************************)
(* Bounds of the model.                                                    *)
(***************************************************************************)
\* child processes spawned by start and execute requests
MaxProcs == 2
\* length of the lifecycle transcript up to which start, stop and an
\* execute that starts the interpreter are still requested
MaxLog == 5
\* executeCode calls
MaxExec == 1
\* length of the post window up to which output chunks still arrive
MaxPost == 1
\* characters of the document open in the editor
MaxDoc == 5
\* characters of the documents the language mode is asked about
MaxText == 3
\* executeCode calls where two fragments are dispatched in a row
MaxDispatch == 2

(***************************************************************************)
(* Environment: host platform, configuration values, spawn outcomes.       *)
(***************************************************************************)
\* values of process.platform
Platforms == {"linux", "win32", "darwin"}

\* values of the setting supercollider.sclangPath ("" stands for unset)
ConfigValues == {"", "/opt/sc/sclang"}

\* hosts the extension is activated on: every platform with the default
\* path, and one with a configured path (the platform is read only when the
\* path is the default one)
Environments ==
    { e \in Platforms \X ConfigValues : e[2] = "" \/ e[1] = "linux" }

\* what child_process.spawn does: the child runs ("ok"); the spawn fails and
\* an 'error' event is emitted later (ENOENT: executable not found; EMFILE:
\* no file descriptors left, and the stdio streams are never created); or
\* the call throws synchronously ("throw").
SpawnOutcomes == {"ok", "ENOENT", "EMFILE", "throw"}

\* `${code}` of an 'exit' event: the status the process exited with, or
\* null when a signal ended it; a process sent a signal by kill() may
\* still exit with a status, and one never sent any may end by a signal
ExitCodes == {"0", "3", "null"}

\* the value null of `sclangProcess`; processes are numbered from 1
NoProc == 0

\* the control character '\x1b'
ESC == "\\x1b"

\* characters String.prototype.trim removes: the white space and the line
\* terminators of ECMAScript; those without an escape are named by their
\* code point
WhiteSpace ==
    { " ", "\t", "\n", "\r", "\f", "U+000B", "U+00A0", "U+1680", "U+2000",
      "U+2001", "U+2002", "U+2003", "U+2004", "U+2005", "U+2006", "U+2007",
      "U+2008", "U+2009", "U+200A", "U+2028", "U+2029", "U+202F", "U+205F",
      "U+3000", "U+FEFF" }

\* fragments handed to executeCode: a whitespace-only one (a form feed and
\* a line break), and a two-line one with whitespace around it
CodeInputs ==
    { <<"\f", "\n">>,
      <<" ", "a", "\n", "b", " ">> }

\* chunks the interpreter prints
Chunks == { <<"o", "k", "\n">> }

\* characters of a document: the two parentheses, a blank and a line break
DocChars == {"(", ")", " ", "\n"}

\* texts of the document open in the editor
Documents == UNION { [1..n -> DocChars] : n \in 0..MaxDoc }

VARIABLES
    platform,          \* process.platform of the extension host
    config,            \* the setting supercollider.sclangPath
    sclangProcess,     \* let sclangProcess: ChildProcess | null
    procs,             \* every ChildProcess object created so far
    sclangOutput,      \* lines of the output channel 'SuperCollider'
    postWindowOutput,  \* pieces appended to 'SuperCollider Post Window'
    errorMessages,     \* window.showErrorMessage notifications
    timers,            \* pending setTimeout callbacks (their `code`)
    spawnCalls,        \* paths passed to child_process.spawn so far
    execCalls,         \* number of executeCode calls so far
    document,          \* editor.document: the text of the active editor
    selection,         \* editor.selection: its anchor and active position
    deactivated,       \* deactivate has run: no command is issued any more
    last               \* the operation performed by the latest step

vars == << platform, config, sclangProcess, procs, sclangOutput, postWindowOutput,
           errorMessages, timers, spawnCalls, execCalls, document, selection,
           deactivated, last >>

(***************************************************************************)
(* Text helpers.                                                           *)
(***************************************************************************)
RECURSIVE TrimStart(_)
TrimStart(s) ==
    IF s # <<>> /\ Head(s) \in WhiteSpace THEN TrimStart(Tail(s)) ELSE s

RECURSIVE TrimEnd(_)
TrimEnd(s) ==
    IF s # <<>> /\ s[Len(s)] \in WhiteSpace
    THEN TrimEnd(SubSeq(s, 1, Len(s) - 1))
    ELSE s

\* a trim that leaves trailing whitespace in place
TrimLeading(s) == TrimStart(s)

\* String.prototype.trim
Trim(s) == TrimEnd(TrimStart(s))

\* s.includes('\n')
IncludesNewline(s) == \E i \in 1..Len(s) : s[i] = "\n"

\* s.split('\n')[0]
RECURSIVE FirstLine(_)
FirstLine(s) ==
    IF s = <<>> \/ Head(s) = "\n" THEN <<>>
    ELSE <<Head(s)>> \o FirstLine(Tail(s))

(***************************************************************************)
(* Lines and notifications, as the template literals build them.           *)
(***************************************************************************)
\* err.message of the 'error' event of a failed spawn: the system call with
\* the file, and the cause
ErrMessage(path, cause) == <<"spawn ", path, " ", cause>>

\* err.message of the exception spawn throws: the cause is one of those
\* spawn reports by throwing
ThrownMessage == <<"spawn ", "E2BIG">>

\* `${err}` of an Error
ErrToString(message) == <<"Error", ": ">> \o message

LineAlreadyRunning == <<"[SuperCollider] sclang already running">>
LineStarting(path) == <<"[SuperCollider] Starting sclang: ", path>>
LineSpawned == <<"[SuperCollider] sclang process spawned, waiting for output...">>
LineFailedToStart ==
    <<"[SuperCollider] Failed to start sclang: ">> \o ErrToString(ThrownMessage)
LineErrorSpawning(path, msg) ==
    <<"[SuperCollider] Error spawning ", path, ": ">> \o msg
LineFallback == <<"[SuperCollider] Attempting fallback to sclang.exe...">>
LineExited(code) == <<"[SuperCollider] sclang exited with code ", code>>
LineStopping == <<"[SuperCollider] Stopping sclang...">>
LineStopped == <<"[SuperCollider] sclang stopped">>
LineActivated == <<"[SuperCollider] Extension activated">>

MsgFailedToStart ==
    <<"Failed to start sclang. Make sure SuperCollider is installed and sclangPath is configured.">>
MsgSpawnError(path, msg) ==
    <<"Failed to start sclang (", path, "): ">> \o msg
        \o <<". Check supercollider.sclangPath setting.">>
MsgNotRunning == <<"sclang is not running">>

\* an echo line that carries the ellipsis whatever the code
EchoLineAlwaysEllipsis(cleanCode) ==
    <<"\n", "-", ">", " ">> \o FirstLine(cleanCode) \o <<".", ".", ".">>
        \o <<"\n">>

\* the echo line of sendCode, with the newline appendLine adds
EchoLine(cleanCode) ==
    <<"\n", "-", ">", " ">> \o FirstLine(cleanCode)
        \o (IF IncludesNewline(cleanCode) THEN <<".", ".", ".">> ELSE <<>>)
        \o <<"\n">>

\* a payload ended by a newline instead of the escape character
PayloadWithNewline(cleanCode) == cleanCode \o <<"\n">>

\* what sendCode writes to stdin
Payload(cleanCode) == cleanCode \o <<ESC>>

(***************************************************************************)
(* getSclangPath, and the ChildProcess object spawn returns.               *)
(***************************************************************************)
GetSclangPath == IF config = "" THEN "sclang" ELSE config

\* default value of startSclang's parameter; no caller passes another
fallbackToExe == TRUE

\* path:    the executable it was spawned with
\* started: the OS process was created (the spawn did not fail)
\* live:    the OS process runs (spawned, no 'exit' yet)
\* killed:  ChildProcess.killed, set once kill() has sent a signal
\* stdin:   ChildProcess.stdin is a stream (not null / undefined)
\* err:     the cause of the 'error' event still to be emitted, or "none"
\* written: the payloads written to stdin, in order
\* signals: termination signals kill() has sent on behalf of the object
SpawnProcess(path, outcome) ==
    [ path    |-> path,
      started |-> outcome = "ok",
      live    |-> outcome = "ok",
      killed  |-> FALSE,
      stdin   |-> outcome # "EMFILE",
      err     |-> IF outcome = "ok" THEN "none" ELSE outcome,
      written |-> <<>>,
      signals |-> 0 ]

\* a test that takes a process whose spawn failed for no process
HandleLiveOnlyIfRunning ==
    sclangProcess # NoProc /\ procs[sclangProcess].live

\* sclangProcess && !sclangProcess.killed
HandleLive ==
    sclangProcess # NoProc /\ ~procs[sclangProcess].killed

\* number of processes spawned on request, not as a fallback
Requested ==
    Cardinality({p \in 1..Len(procs) : procs[p].path # "sclang.exe"})

\* an operation and the fragment, chunk or exit code it was given
Op(name, text) == [op |-> name, text |-> text]

\* Position(0, 0)
Origin == [line |-> 0, character |-> 0]

Init ==
    /\ \E e \in Environments : platform = e[1] /\ config = e[2]
    /\ deactivated = FALSE
    /\ document = <<>>
    /\ selection = [anchor |-> Origin, active |-> Origin]
    /\ sclangProcess = NoProc
    /\ procs = <<>>
    /\ sclangOutput = <<LineActivated>>
    /\ postWindowOutput = <<>>
    /\ errorMessages = <<>>
    /\ timers = <<>>
    /\ spawnCalls = <<>>
    /\ execCalls = 0
    /\ last = Op("activate", <<>>)

(***************************************************************************)
(* startSclang: the values it leaves behind and the value it returns.      *)
(* outcome is what the call of spawn does.                                 *)
(***************************************************************************)
\* startSclang whose catch block reports success
StartSclangThrowReportsSuccess(outcome) ==
    LET path == GetSclangPath IN
    IF HandleLive
    THEN [ ret           |-> TRUE,
           sclangProcess |-> sclangProcess,
           procs         |-> procs,
           sclangOutput  |-> Append(sclangOutput, LineAlreadyRunning),
           errorMessages |-> errorMessages,
           spawnCalls    |-> spawnCalls ]
    ELSE IF outcome = "throw"
    THEN [ ret           |-> TRUE,
           sclangProcess |-> sclangProcess,
           procs         |-> procs,
           sclangOutput  |-> sclangOutput
                                \o <<LineStarting(path), LineFailedToStart>>,
           errorMessages |-> Append(errorMessages, MsgFailedToStart),
           spawnCalls    |-> Append(spawnCalls, path) ]
    ELSE [ ret           |-> TRUE,
           sclangProcess |-> Len(procs) + 1,
           procs         |-> Append(procs, SpawnProcess(path, outcome)),
           sclangOutput  |-> sclangOutput
                                \o <<LineStarting(path), LineSpawned>>,
           errorMessages |-> errorMessages,
           spawnCalls    |-> Append(spawnCalls, path) ]

StartSclang(outcome) ==
    LET path == GetSclangPath IN
    IF HandleLive
    THEN [ ret           |-> TRUE,
           sclangProcess |-> sclangProcess,
           procs         |-> procs,
           sclangOutput  |-> Append(sclangOutput, LineAlreadyRunning),
           errorMessages |-> errorMessages,
           spawnCalls    |-> spawnCalls ]
    ELSE IF outcome = "throw"
    THEN [ ret           |-> FALSE,
           sclangProcess |-> sclangProcess,
           procs         |-> procs,
           sclangOutput  |-> sclangOutput
                                \o <<LineStarting(path), LineFailedToStart>>,
           errorMessages |-> Append(errorMessages, MsgFailedToStart),
           spawnCalls    |-> Append(spawnCalls, path) ]
    ELSE [ ret           |-> TRUE,
           sclangProcess |-> Len(procs) + 1,
           procs         |-> Append(procs, SpawnProcess(path, outcome)),
           sclangOutput  |-> sclangOutput
                                \o <<LineStarting(path), LineSpawned>>,
           errorMessages |-> errorMessages,
           spawnCalls    |-> Append(spawnCalls, path) ]

(***************************************************************************)
(* proc.on('error'): the observer startSclang registers on every process.  *)
(* It runs for the 'error' event of a failed spawn, and for the one kill() *)
(* emits when the signal cannot be sent.                                   *)
(***************************************************************************)
\* a fallback that is tried on every platform
FallbackAnyPlatform(path) ==
    /\ path = "sclang"
    /\ fallbackToExe

\* the condition of the fallback in proc.on('error')
FallbackEligible(path) ==
    /\ path = "sclang"
    /\ fallbackToExe
    /\ platform = "linux" \/ platform = "win32"

\* what the spawn made by the observer of a process spawned as `path` can
\* do; where the observer spawns nothing there is nothing to choose
FallbackOutcomes(path) ==
    IF FallbackEligible(path) THEN SpawnOutcomes ELSE {"ok"}

\* the observer of process p, run with err.message `message` when the
\* lifecycle transcript is `out`; outcome is what spawn('sclang.exe') does.
\* thrown: that spawn threw, and the exception leaves the observer
OnError(out, p, message, outcome) ==
    LET path == procs[p].path
        line == LineErrorSpawning(path, message)
    IN  IF FallbackEligible(path)
        THEN [ thrown        |-> outcome = "throw",
               sclangProcess |-> IF outcome = "throw" THEN sclangProcess
                                 ELSE Len(procs) + 1,
               procs         |-> IF outcome = "throw" THEN procs
                                 ELSE Append(procs,
                                         SpawnProcess("sclang.exe", outcome)),
               sclangOutput  |-> out \o <<line, LineFallback>>,
               errorMessages |-> errorMessages,
               spawnCalls    |-> Append(spawnCalls, "sclang.exe") ]
        ELSE [ thrown        |-> FALSE,
               sclangProcess |-> NoProc,
               procs         |-> procs,
               sclangOutput  |-> Append(out, line),
               errorMessages |-> Append(errorMessages,
                                     MsgSpawnError(path, message)),
               spawnCalls    |-> spawnCalls ]

(***************************************************************************)
(* ChildProcess.kill().  "sent": the signal is sent, `killed` is set and   *)
(* the call returns true.  "EPERM": the system refuses the signal; the     *)
(* call emits 'error' before it returns false, `killed` stays false.       *)
(* "refused": the call returns false and does nothing else.  A running     *)
(* process is sent the signal unless the system refuses it.  For a process *)
(* whose spawn failed and whose 'error' event is still to come the runtime *)
(* decides: some releases refuse the call, others count a signal as sent.  *)
(* Once the 'error' or the 'exit' event has been emitted the call is       *)
(* refused.                                                                *)
(***************************************************************************)
KillResults(proc) ==
    IF proc.live THEN {"sent", "EPERM"}
    ELSE IF proc.err # "none" THEN {"sent", "refused"}
    ELSE {"refused"}

\* the results of kill() on the process the handle references
KillResultsOfHeld ==
    IF sclangProcess = NoProc THEN {"refused"}
    ELSE KillResults(procs[sclangProcess])

\* what the spawn made inside stopSclang can do: the observer of the held
\* process runs there only when kill() emits 'error'
StopOutcomes(result) ==
    IF result = "EPERM" THEN FallbackOutcomes(procs[sclangProcess].path)
    ELSE {"ok"}

\* err.message of the 'error' event kill() emits
KillMessage == <<"kill ", "EPERM">>

Kill(ps, p, result) ==
    IF result = "sent"
    THEN [ps EXCEPT ![p].killed = TRUE, ![p].signals = @ + 1]
    ELSE ps

(***************************************************************************)
(* stopSclang.  result is what kill() does and outcome what the spawn of   *)
(* the fallback does, when kill() emits 'error' and the observer of the    *)
(* held process runs inside the call.  When that spawn throws, the         *)
(* exception leaves stopSclang before the handle is cleared.               *)
(***************************************************************************)
\* stop that logs whether or not a process is held
StopSclangAlwaysLogs(result, outcome) ==
    [ sclangProcess |-> NoProc,
      procs         |-> IF HandleLive THEN Kill(procs, sclangProcess, result)
                        ELSE procs,
      sclangOutput  |-> sclangOutput \o <<LineStopping, LineStopped>>,
      errorMessages |-> errorMessages,
      spawnCalls    |-> spawnCalls ]

StopSclang(result, outcome) ==
    IF ~HandleLive
    THEN [ sclangProcess |-> sclangProcess,
           procs         |-> procs,
           sclangOutput  |-> sclangOutput,
           errorMessages |-> errorMessages,
           spawnCalls    |-> spawnCalls ]
    ELSE IF result = "EPERM"
    THEN LET e == OnError(Append(sclangOutput, LineStopping), sclangProcess,
                          KillMessage, outcome)
         IN  [ sclangProcess |-> IF e.thrown THEN sclangProcess ELSE NoProc,
               procs         |-> e.procs,
               sclangOutput  |-> IF e.thrown THEN e.sclangOutput
                                 ELSE Append(e.sclangOutput, LineStopped),
               errorMessages |-> e.errorMessages,
               spawnCalls    |-> e.spawnCalls ]
    ELSE [ sclangProcess |-> NoProc,
           procs         |-> Kill(procs, sclangProcess, result),
           sclangOutput  |-> sclangOutput \o <<LineStopping, LineStopped>>,
           errorMessages |-> errorMessages,
           spawnCalls    |-> spawnCalls ]

(***************************************************************************)
(* sendCode                                                                *)
(***************************************************************************)
\* sendCode that drops the fragment silently when no process is held
SendCodeSilentDrop(code) ==
    LET cleanCode == Trim(code) IN
    IF sclangProcess = NoProc \/ ~procs[sclangProcess].stdin
    THEN [ procs            |-> procs,
           postWindowOutput |-> postWindowOutput,
           errorMessages    |-> errorMessages ]
    ELSE IF cleanCode = <<>>
    THEN [ procs            |-> procs,
           postWindowOutput |-> postWindowOutput,
           errorMessages    |-> errorMessages ]
    ELSE [ procs            |-> [procs EXCEPT ![sclangProcess].written =
                                    Append(@, Payload(cleanCode))],
           postWindowOutput |-> Append(postWindowOutput, EchoLine(cleanCode)),
           errorMessages    |-> errorMessages ]

\* sendCode that writes to the first process spawned, held or not
SendCodeToFirstProcess(code) ==
    LET cleanCode == Trim(code) IN
    IF sclangProcess = NoProc \/ ~procs[sclangProcess].stdin
    THEN [ procs            |-> procs,
           postWindowOutput |-> postWindowOutput,
           errorMessages    |-> Append(errorMessages, MsgNotRunning) ]
    ELSE IF cleanCode = <<>>
    THEN [ procs            |-> procs,
           postWindowOutput |-> postWindowOutput,
           errorMessages    |-> errorMessages ]
    ELSE [ procs            |-> [procs EXCEPT ![1].written =
                                    Append(@, Payload(cleanCode))],
           postWindowOutput |-> Append(postWindowOutput, EchoLine(cleanCode)),
           errorMessages    |-> errorMessages ]

SendCode(code) ==
    LET cleanCode == Trim(code) IN
    IF sclangProcess = NoProc \/ ~procs[sclangProcess].stdin
    THEN [ procs            |-> procs,
           postWindowOutput |-> postWindowOutput,
           errorMessages    |-> Append(errorMessages, MsgNotRunning) ]
    ELSE IF cleanCode = <<>>
    THEN [ procs            |-> procs,
           postWindowOutput |-> postWindowOutput,
           errorMessages    |-> errorMessages ]
    ELSE [ procs            |-> [procs EXCEPT ![sclangProcess].written =
                                    Append(@, Payload(cleanCode))],
           postWindowOutput |-> Append(postWindowOutput, EchoLine(cleanCode)),
           errorMessages    |-> errorMessages ]

(***************************************************************************)
(* The user commands.                                                      *)
(***************************************************************************)
\* command 'supercollider.startSclang'
StartCommand ==
    \E outcome \in SpawnOutcomes :
        LET r == StartSclang(outcome) IN
        /\ Len(sclangOutput) <= MaxLog
        /\ HandleLive \/ Requested < MaxProcs
        /\ sclangProcess' = r.sclangProcess
        /\ procs' = r.procs
        /\ sclangOutput' = r.sclangOutput
        /\ errorMessages' = r.errorMessages
        /\ spawnCalls' = r.spawnCalls
        /\ last' = Op("start", <<>>)
        /\ UNCHANGED << deactivated, platform, config, document, selection, postWindowOutput, timers, execCalls >>

\* command 'supercollider.stopSclang'
StopCommand ==
    \E result \in KillResultsOfHeld : \E outcome \in StopOutcomes(result) :
    LET r == StopSclang(result, outcome) IN
    /\ Len(sclangOutput) <= MaxLog
    /\ sclangProcess' = r.sclangProcess
    /\ procs' = r.procs
    /\ sclangOutput' = r.sclangOutput
    /\ errorMessages' = r.errorMessages
    /\ spawnCalls' = r.spawnCalls
    /\ last' = Op("stop", <<>>)
    /\ UNCHANGED << deactivated, platform, config, document, selection, postWindowOutput, timers,
                    execCalls >>

\* deactivate; the language client it then stops is not part of the model.
\* The observers of the processes stay registered.
Deactivate ==
    \E result \in KillResultsOfHeld : \E outcome \in StopOutcomes(result) :
    LET r == StopSclang(result, outcome) IN
    /\ sclangProcess' = r.sclangProcess
    /\ procs' = r.procs
    /\ sclangOutput' = r.sclangOutput
    /\ errorMessages' = r.errorMessages
    /\ spawnCalls' = r.spawnCalls
    /\ last' = Op("deactivate", <<>>)
    /\ deactivated' = TRUE
    /\ UNCHANGED << platform, config, document, selection, postWindowOutput, timers,
                    execCalls >>

\* executeCode that leaves the fragment to a timer behind the pending ones
\* when a process is held
ExecuteCodeQueuesBehindTimer(code, limit) ==
    /\ execCalls < limit
    /\ execCalls' = execCalls + 1
    /\ last' = Op("execute", code)
    /\ IF ~HandleLive
       THEN \E outcome \in SpawnOutcomes :
                LET r == StartSclang(outcome) IN
                /\ Len(sclangOutput) <= MaxLog
                /\ Requested < MaxProcs
                /\ sclangProcess' = r.sclangProcess
                /\ procs' = r.procs
                /\ sclangOutput' = r.sclangOutput
                /\ errorMessages' = r.errorMessages
                /\ spawnCalls' = r.spawnCalls
                /\ timers' = IF r.ret THEN Append(timers, code) ELSE timers
                /\ UNCHANGED << deactivated, platform, config, document, selection, postWindowOutput >>
       ELSE /\ timers' = Append(timers, code)
            /\ UNCHANGED << deactivated, platform, config, document, selection, sclangProcess, procs,
                            sclangOutput, postWindowOutput, errorMessages,
                            spawnCalls >>

\* executeCode(code), as long as fewer than limit calls have been made
ExecuteCodeWithin(code, limit) ==
    /\ execCalls < limit
    /\ execCalls' = execCalls + 1
    /\ last' = Op("execute", code)
    /\ IF ~HandleLive
       THEN \E outcome \in SpawnOutcomes :
                LET r == StartSclang(outcome) IN
                /\ Len(sclangOutput) <= MaxLog
                /\ Requested < MaxProcs
                /\ sclangProcess' = r.sclangProcess
                /\ procs' = r.procs
                /\ sclangOutput' = r.sclangOutput
                /\ errorMessages' = r.errorMessages
                /\ spawnCalls' = r.spawnCalls
                /\ timers' = IF r.ret THEN Append(timers, code) ELSE timers
                /\ UNCHANGED << deactivated, platform, config, document, selection, postWindowOutput >>
       ELSE LET s == SendCode(code) IN
            /\ procs' = s.procs
            /\ postWindowOutput' = s.postWindowOutput
            /\ errorMessages' = s.errorMessages
            /\ UNCHANGED << deactivated, platform, config, document, selection, sclangProcess, sclangOutput, timers,
                            spawnCalls >>

\* executeCode that delays the send even when a process is held
ExecuteCodeAlwaysWarmsUp(code) ==
    /\ execCalls < MaxExec
    /\ execCalls' = execCalls + 1
    /\ last' = Op("execute", code)
    /\ IF ~HandleLive
       THEN \E outcome \in SpawnOutcomes :
                LET r == StartSclang(outcome) IN
                /\ Len(sclangOutput) <= MaxLog
                /\ Requested < MaxProcs
                /\ sclangProcess' = r.sclangProcess
                /\ procs' = r.procs
                /\ sclangOutput' = r.sclangOutput
                /\ errorMessages' = r.errorMessages
                /\ spawnCalls' = r.spawnCalls
                /\ timers' = IF r.ret THEN Append(timers, code) ELSE timers
                /\ UNCHANGED << deactivated, platform, config, document, selection, postWindowOutput >>
       ELSE /\ timers' = Append(timers, code)
            /\ UNCHANGED << deactivated, platform, config, document, selection, sclangProcess, procs,
                            sclangOutput, postWindowOutput, errorMessages,
                            spawnCalls >>

\* executeCode(code), reached from executeBlockCommand and the server commands
ExecuteCode(code) == ExecuteCodeWithin(code, MaxExec)

Execute == \E code \in CodeInputs : ExecuteCode(code)

(***************************************************************************)
(* The server commands: each hands a fixed statement to executeCode.       *)
(***************************************************************************)
\* bootServer handing over the statement of killServer
BootServerSendsQuit == ExecuteCode(<<"s", ".", "q", "u", "i", "t", ";">>)

\* command 'supercollider.bootServer'
BootServer == ExecuteCode(<<"s", ".", "b", "o", "o", "t", ";">>)

\* command 'supercollider.rebootServer'
RebootServer == ExecuteCode(<<"s", ".", "r", "e", "b", "o", "o", "t", ";">>)

\* command 'supercollider.killServer'
KillServer == ExecuteCode(<<"s", ".", "q", "u", "i", "t", ";">>)

\* command 'supercollider.stopAllSounds'
StopAllSounds ==
    ExecuteCode(<<"C", "m", "d", "P", "e", "r", "i", "o", "d", ".", "r", "u", "n", ";">>)

(***************************************************************************)
(* The editor: TextDocument, Position and Selection as the block command   *)
(* uses them.  Lines and characters are numbered from 0, as offsets are.   *)
(***************************************************************************)
\* the lines of the document, without their line breaks
RECURSIVE Lines(_)
Lines(text) ==
    IF ~IncludesNewline(text) THEN <<text>>
    ELSE <<FirstLine(text)>>
            \o Lines(SubSeq(text, Len(FirstLine(text)) + 2, Len(text)))

\* document.lineAt(line).text
LineAt(text, line) == Lines(text)[line + 1]

\* document.offsetAt(position)
RECURSIVE OffsetAt(_, _)
OffsetAt(text, position) ==
    IF position.line = 0 THEN position.character
    ELSE Len(LineAt(text, position.line - 1)) + 1
            + OffsetAt(text, [position EXCEPT !.line = @ - 1])

\* the positions of a document
Positions(text) ==
    UNION { { [line |-> l, character |-> c] : c \in 0..Len(LineAt(text, l)) }
            : l \in 0..(Len(Lines(text)) - 1) }

\* the selections of a document; the active position is the cursor
Selections(text) == [anchor : Positions(text), active : Positions(text)]

\* selection.isEmpty
IsEmpty(sel) == sel.anchor = sel.active

\* a getText that strips the whitespace around the selected text
GetTextTrimmed(text, sel) ==
    LET a == OffsetAt(text, sel.anchor)
        b == OffsetAt(text, sel.active)
    IN  Trim(SubSeq(text, (IF a <= b THEN a ELSE b) + 1, IF a <= b THEN b ELSE a))

\* document.getText(selection): the text from selection.start to
\* selection.end, whichever of anchor and active comes first
GetText(text, sel) ==
    LET a == OffsetAt(text, sel.anchor)
        b == OffsetAt(text, sel.active)
    IN  SubSeq(text, (IF a <= b THEN a ELSE b) + 1, IF a <= b THEN b ELSE a)

\* text[i] of a JavaScript string
CharAt(text, i) ==
    IF i >= 0 /\ i < Len(text) THEN text[i + 1] ELSE "undefined"

\* findCodeBlock, first loop: startOffset, or -1
RECURSIVE SearchBackwards(_, _, _)
SearchBackwards(text, i, depth) ==
    IF i < 0 THEN -1
    ELSE IF CharAt(text, i) = ")" THEN SearchBackwards(text, i - 1, depth + 1)
    ELSE IF CharAt(text, i) = "("
         THEN IF depth = 0 THEN i
              ELSE SearchBackwards(text, i - 1, depth - 1)
    ELSE SearchBackwards(text, i - 1, depth)

\* a forward loop that ends at the first closing parenthesis, whatever the
\* depth
RECURSIVE SearchForwardsFirstClose(_, _, _)
SearchForwardsFirstClose(text, i, depth) ==
    IF i >= Len(text) THEN -1
    ELSE IF CharAt(text, i) = ")" THEN i + 1
    ELSE SearchForwardsFirstClose(text, i + 1, depth)

\* findCodeBlock, second loop: endOffset, or -1
RECURSIVE SearchForwards(_, _, _)
SearchForwards(text, i, depth) ==
    IF i >= Len(text) THEN -1
    ELSE IF CharAt(text, i) = "(" THEN SearchForwards(text, i + 1, depth + 1)
    ELSE IF CharAt(text, i) = ")"
         THEN IF depth - 1 = 0 THEN i + 1
              ELSE SearchForwards(text, i + 1, depth - 1)
    ELSE SearchForwards(text, i + 1, depth)

\* findCodeBlock(document, position)
FindCodeBlock(text, position) ==
    LET offset      == OffsetAt(text, position)
        startOffset == SearchBackwards(text, offset, 0)
        endOffset   == IF startOffset >= 0
                       THEN SearchForwards(text, startOffset, 0)
                       ELSE -1
    IN  IF startOffset >= 0 /\ endOffset > startOffset
        THEN SubSeq(text, startOffset + 1, endOffset)
        ELSE Trim(LineAt(text, position.line))

\* a block command without the `else` that falls back to the raw line
BlockCodeNoRawLine(text, sel) ==
    IF ~IsEmpty(sel) THEN GetText(text, sel)
    ELSE FindCodeBlock(text, sel.active)

\* the `code` executeBlockCommand hands to executeCode
BlockCode(text, sel) ==
    IF ~IsEmpty(sel) THEN GetText(text, sel)
    ELSE LET blockCode == FindCodeBlock(text, sel.active) IN
         IF blockCode # <<>> THEN blockCode
         ELSE LineAt(text, sel.active.line)

\* command 'supercollider.executeBlock'
ExecuteBlockCommand == ExecuteCode(BlockCode(document, selection))

(***************************************************************************)
(* Asynchronous events.                                                    *)
(***************************************************************************)
\* an 'error' event of a failed spawn is still to be emitted
ErrorPending == \E p \in 1..Len(procs) : procs[p].err # "none"

\* a timer that is not cleared when it fires and fires again
TimerFireRepeats ==
    /\ timers # <<>>
    /\ ~ErrorPending
    /\ LET s == SendCode(Head(timers)) IN
        /\ procs' = s.procs
        /\ postWindowOutput' = s.postWindowOutput
        /\ errorMessages' = s.errorMessages
    /\ timers' = timers
    /\ last' = Op("timer", Head(timers))
    /\ UNCHANGED << deactivated, platform, config, document, selection, sclangProcess, sclangOutput, spawnCalls,
                    execCalls >>

\* the setTimeout callback of executeCode, one second after it was set.  The
\* 'error' event of a failed spawn is emitted on the next tick of the call
\* of spawn, ahead of every timer callback.
TimerFire ==
    /\ timers # <<>>
    /\ ~ErrorPending
    /\ LET s == SendCode(Head(timers)) IN
        /\ procs' = s.procs
        /\ postWindowOutput' = s.postWindowOutput
        /\ errorMessages' = s.errorMessages
    /\ timers' = Tail(timers)
    /\ last' = Op("timer", Head(timers))
    /\ UNCHANGED << deactivated, platform, config, document, selection, sclangProcess, sclangOutput, spawnCalls,
                    execCalls >>

\* the 'error' event of the failed spawn of process p; outcome is what
\* spawn('sclang.exe') does.  The observer is not inside the try block of
\* startSclang: when the spawn of the fallback throws, the observer ends
\* there and the handle is kept.
ErrorEvent(p) ==
    /\ procs[p].err # "none"
    /\ \E outcome \in FallbackOutcomes(procs[p].path) :
           LET e == OnError(sclangOutput, p,
                            ErrMessage(procs[p].path, procs[p].err), outcome)
           IN  /\ sclangProcess' = e.sclangProcess
               /\ procs' = [e.procs EXCEPT ![p].err = "none"]
               /\ sclangOutput' = e.sclangOutput
               /\ errorMessages' = e.errorMessages
               /\ spawnCalls' = e.spawnCalls
    /\ last' = Op("error", <<>>)
    /\ UNCHANGED << deactivated, platform, config, document, selection, postWindowOutput, timers, execCalls >>

\* an exit observer that logs the exit but keeps the handle
ExitEventKeepsHandle(p) ==
    /\ procs[p].live
    /\ procs' = [procs EXCEPT ![p].live = FALSE]
    /\ \E code \in ExitCodes :
           /\ sclangOutput' = Append(sclangOutput, LineExited(code))
           /\ last' = Op("exit", <<code>>)
    /\ sclangProcess' = sclangProcess
    /\ UNCHANGED << deactivated, platform, config, document, selection, postWindowOutput, errorMessages, timers,
                    spawnCalls, execCalls >>

\* proc.on('exit') of process p
ExitEvent(p) ==
    /\ procs[p].live
    /\ procs' = [procs EXCEPT ![p].live = FALSE]
    /\ \E code \in ExitCodes :
           /\ sclangOutput' = Append(sclangOutput, LineExited(code))
           /\ last' = Op("exit", <<code>>)
    /\ sclangProcess' = NoProc
    /\ UNCHANGED << deactivated, platform, config, document, selection, postWindowOutput, errorMessages, timers,
                    spawnCalls, execCalls >>

\* a data observer that skips a chunk equal to the piece appended last
OnDataDeduplicates(p, text) ==
    /\ procs[p].started
    /\ Len(postWindowOutput) <= MaxPost
    /\ postWindowOutput' =
           IF postWindowOutput # <<>>
                /\ postWindowOutput[Len(postWindowOutput)] = text
           THEN postWindowOutput
           ELSE Append(postWindowOutput, text)
    /\ UNCHANGED << deactivated, platform, config, document, selection, sclangProcess,
                    procs, sclangOutput, errorMessages, timers, spawnCalls,
                    execCalls >>

\* proc.stdout.on('data') and proc.stderr.on('data') of process p; the
\* streams of a process that ran outlive its 'exit' event
OnData(p, text) ==
    /\ procs[p].started
    /\ Len(postWindowOutput) <= MaxPost
    /\ postWindowOutput' = Append(postWindowOutput, text)
    /\ UNCHANGED << deactivated, platform, config, document, selection, sclangProcess, procs, sclangOutput,
                    errorMessages, timers, spawnCalls, execCalls >>

StdoutData(p) ==
    \E text \in Chunks : OnData(p, text) /\ last' = Op("stdout", text)

StderrData(p) ==
    \E text \in Chunks : OnData(p, text) /\ last' = Op("stderr", text)

Next ==
    \/ StartCommand
    \/ StopCommand
    \/ Execute
    \/ TimerFire
    \/ \E p \in 1..Len(procs) : ErrorEvent(p)
    \/ \E p \in 1..Len(procs) : ExitEvent(p)
    \/ \E p \in 1..Len(procs) : StdoutData(p)
    \/ \E p \in 1..Len(procs) : StderrData(p)

Spec == Init /\ [][Next]_vars

\* the commands, the timer and the 'error' and 'exit' events; what the
\* interpreter prints has no part in the progress of a pending send
FairNext ==
    \/ StartCommand
    \/ StopCommand
    \/ Execute
    \/ TimerFire
    \/ \E p \in 1..Len(procs) : ErrorEvent(p)
    \/ \E p \in 1..Len(procs) : ExitEvent(p)

\* the timer callback is always run once its delay has elapsed, and the
\* 'error' event of a failed spawn is always emitted
FairSpec ==
    /\ Init
    /\ [][FairNext]_vars
    /\ WF_vars(TimerFire)
    /\ WF_vars(\E p \in 1..Len(procs) : ErrorEvent(p))

(***************************************************************************)
(* The block command over every document and selection up to MaxDoc        *)
(* characters, with the default path, once a start command has spawned the *)
(* interpreter: the command sends its fragment at once, to an interpreter  *)
(* that keeps running and prints nothing.                                  *)
(***************************************************************************)
BlockInit ==
    /\ deactivated = FALSE
    /\ platform = "darwin"
    /\ config = ""
    /\ sclangProcess = 1
    /\ procs = << SpawnProcess("sclang", "ok") >>
    /\ sclangOutput = <<LineActivated, LineStarting("sclang"), LineSpawned>>
    /\ postWindowOutput = <<>>
    /\ errorMessages = <<>>
    /\ timers = <<>>
    /\ spawnCalls = <<"sclang">>
    /\ execCalls = 0
    /\ document \in Documents
    /\ selection \in Selections(document)
    /\ last = Op("start", <<>>)

BlockNext == ExecuteBlockCommand

BlockSpec == BlockInit /\ [][BlockNext]_vars

(***************************************************************************)
(* The server commands together with the start and stop commands, the      *)
(* timer and the events that end a process.                                *)
(***************************************************************************)
ServerNext ==
    \/ StartCommand
    \/ StopCommand
    \/ BootServer
    \/ RebootServer
    \/ KillServer
    \/ StopAllSounds
    \/ TimerFire
    \/ \E p \in 1..Len(procs) : ErrorEvent(p)
    \/ \E p \in 1..Len(procs) : ExitEvent(p)

ServerSpec == Init /\ [][ServerNext]_vars

(***************************************************************************)
(* The start and stop commands up to the deactivation of the extension,    *)
(* and the events of the processes, which go on after it: deactivate       *)
(* removes the commands, not the observers.                                *)
(***************************************************************************)
DeactivateNext ==
    \/ ~deactivated /\ StartCommand
    \/ ~deactivated /\ StopCommand
    \/ ~deactivated /\ Deactivate
    \/ \E p \in 1..Len(procs) : ErrorEvent(p)
    \/ \E p \in 1..Len(procs) : ExitEvent(p)

DeactivateSpec == Init /\ [][DeactivateNext]_vars

(***************************************************************************)
(* Several executeCode calls in a row, with the timer and the events of    *)
(* the processes they spawn.                                               *)
(***************************************************************************)
\* two fragments that differ
DispatchInputs == { <<"1">>, <<"2">> }

ExecuteFragment ==
    \E code \in DispatchInputs : ExecuteCodeWithin(code, MaxDispatch)

DispatchNext ==
    \/ ExecuteFragment
    \/ TimerFire
    \/ \E p \in 1..Len(procs) : ErrorEvent(p)
    \/ \E p \in 1..Len(procs) : ExitEvent(p)

DispatchSpec == Init /\ [][DispatchNext]_vars

(***************************************************************************)
(* The language mode of the server: the static tables, getWordAtPosition,  *)
(* doComplete and doHover.  Names are sequences of characters; the text    *)
(* of a documentation entry is identified by its table and its key.        *)
(***************************************************************************)
UpperCase == <<"A", "B", "C", "D", "E", "F", "G", "H", "I", "J", "K", "L",
    "M", "N", "O", "P", "Q", "R", "S", "T", "U", "V", "W", "X", "Y", "Z">>

LowerCase == <<"a", "b", "c", "d", "e", "f", "g", "h", "i", "j", "k", "l",
    "m", "n", "o", "p", "q", "r", "s", "t", "u", "v", "w", "x", "y", "z">>

Digits == {"0", "1", "2", "3", "4", "5", "6", "7", "8", "9"}

\* the characters of /[a-zA-Z0-9_]/
WordChars ==
    {UpperCase[i] : i \in 1..26} \cup {LowerCase[i] : i \in 1..26}
        \cup Digits \cup {"_"}

\* the characters of /[a-zA-Z0-9_~]/
WordCharsOrTilde == WordChars \cup {"~"}

\* s.toLowerCase()
ToLowerCase(s) ==
    [i \in 1..Len(s) |->
        IF \E k \in 1..26 : UpperCase[k] = s[i]
        THEN LowerCase[CHOOSE k \in 1..26 : UpperCase[k] = s[i]]
        ELSE s[i]]

\* s.startsWith(prefix)
StartsWith(s, prefix) ==
    Len(prefix) <= Len(s) /\ SubSeq(s, 1, Len(prefix)) = prefix

SC_KEYWORDS == <<
    <<"v","a","r">>, <<"a","r","g">>, <<"c","l","a","s","s","v","a","r">>,
    <<"c","o","n","s","t">>, <<"i","f">>, <<"w","h","i","l","e">>,
    <<"f","o","r">>, <<"f","o","r","B","y">>, <<"d","o">>,
    <<"l","o","o","p">>, <<"c","a","s","e">>, <<"s","w","i","t","c","h">>,
    <<"c","o","l","l","e","c","t">>, <<"s","e","l","e","c","t">>,
    <<"r","e","j","e","c","t">>, <<"d","e","t","e","c","t">>, <<"a","n","y">>,
    <<"e","v","e","r","y">>, <<"t","r","u","e">>, <<"f","a","l","s","e">>,
    <<"n","i","l">>, <<"i","n","f">>, <<"p","i">>, <<"t","h","i","s">>,
    <<"s","u","p","e","r">>, <<"t","h","i","s","P","r","o","c","e","s","s">>,
    <<"t","h","i","s","T","h","r","e","a","d">>,
    <<"t","h","i","s","F","u","n","c","t","i","o","n">>,
    <<"t","h","i","s","F","u","n","c","t","i","o","n","D","e","f">>,
    <<"t","h","i","s","M","e","t","h","o","d">> >>

SC_CLASSES == <<
    <<"S","i","n","O","s","c">>, <<"S","a","w">>, <<"P","u","l","s","e">>,
    <<"L","F","S","a","w">>, <<"L","F","P","u","l","s","e">>,
    <<"L","F","N","o","i","s","e","0">>, <<"L","F","N","o","i","s","e","1">>,
    <<"L","F","N","o","i","s","e","2">>,
    <<"W","h","i","t","e","N","o","i","s","e">>,
    <<"P","i","n","k","N","o","i","s","e">>,
    <<"B","r","o","w","n","N","o","i","s","e">>,
    <<"C","l","i","p","N","o","i","s","e">>,
    <<"G","r","a","y","N","o","i","s","e">>, <<"D","u","s","t">>,
    <<"D","u","s","t","2">>, <<"I","m","p","u","l","s","e">>,
    <<"B","l","i","p">>, <<"L","P","F">>, <<"H","P","F">>, <<"B","P","F">>,
    <<"B","R","F">>, <<"R","L","P","F">>, <<"R","H","P","F">>,
    <<"R","e","s","o","n","z">>, <<"R","i","n","g","z">>,
    <<"F","r","e","e","V","e","r","b">>, <<"G","V","e","r","b">>,
    <<"A","l","l","p","a","s","s","N">>, <<"A","l","l","p","a","s","s","L">>,
    <<"A","l","l","p","a","s","s","C">>, <<"C","o","m","b","N">>,
    <<"C","o","m","b","L">>, <<"C","o","m","b","C">>,
    <<"D","e","l","a","y","N">>, <<"D","e","l","a","y","L">>,
    <<"D","e","l","a","y","C">>, <<"P","a","n","2">>,
    <<"B","a","l","a","n","c","e","2">>, <<"L","i","n","P","a","n","2">>,
    <<"S","p","l","a","y">>, <<"E","n","v","G","e","n">>, <<"E","n","v">>,
    <<"L","i","n","e">>, <<"X","L","i","n","e">>, <<"L","i","n","e","n">>,
    <<"P","l","a","y","B","u","f">>, <<"R","e","c","o","r","d","B","u","f">>,
    <<"B","u","f","R","d">>, <<"B","u","f","W","r">>,
    <<"B","u","f","f","e","r">>, <<"O","u","t">>, <<"I","n">>,
    <<"L","o","c","a","l","I","n">>, <<"L","o","c","a","l","O","u","t">>,
    <<"R","e","p","l","a","c","e","O","u","t">>, <<"X","O","u","t">>,
    <<"M","i","x">>, <<"L","i","m","i","t","e","r">>,
    <<"C","o","m","p","a","n","d","e","r">>,
    <<"N","o","r","m","a","l","i","z","e","r">>, <<"M","o","u","s","e","X">>,
    <<"M","o","u","s","e","Y">>,
    <<"M","o","u","s","e","B","u","t","t","o","n">>, <<"L","a","g">>,
    <<"L","a","g","2">>, <<"L","a","g","3">>, <<"R","a","m","p">>,
    <<"V","a","r","L","a","g">>, <<"D","e","c","a","y">>,
    <<"D","e","c","a","y","2">>, <<"I","n","t","e","g","r","a","t","o","r">>,
    <<"L","e","a","k","D","C">>, <<"F","r","e","e">>,
    <<"F","r","e","e","S","e","l","f">>,
    <<"P","a","u","s","e","S","e","l","f">>, <<"D","o","n","e">>,
    <<"F","r","e","e","S","e","l","f","W","h","e","n","D","o","n","e">>,
    <<"S","e","r","v","e","r">>,
    <<"S","e","r","v","e","r","O","p","t","i","o","n","s">>,
    <<"S","y","n","t","h","D","e","f">>, <<"S","y","n","t","h">>,
    <<"G","r","o","u","p">>, <<"B","u","s">>, <<"P","b","i","n","d">>,
    <<"P","s","e","q">>, <<"P","r","a","n","d">>, <<"P","x","r","a","n","d">>,
    <<"P","w","r","a","n","d">>, <<"P","s","h","u","f">>,
    <<"P","w","h","i","t","e">>, <<"P","e","x","p","r","a","n","d">>,
    <<"P","g","a","u","s","s">>, <<"P","l","p","r","a","n","d">>,
    <<"P","h","p","r","a","n","d">>, <<"P","m","e","a","n","r","a","n","d">>,
    <<"P","n">>, <<"P","d","e","f">>, <<"P","p","a","r">>,
    <<"P","t","p","a","r">>, <<"P","g","p","a","r">>,
    <<"P","c","h","a","i","n">>, <<"P","k","e","y">>, <<"P","f","u","n","c">>,
    <<"P","r","o","u","t">>, <<"P","l","a","z","y">>,
    <<"P","c","o","l","l","e","c","t">>, <<"P","s","e","l","e","c","t">>,
    <<"P","r","e","j","e","c","t">>, <<"P","s","t","u","t","t","e","r">>,
    <<"P","d","u","p">>, <<"P","l","a","c","e">>,
    <<"P","p","a","t","l","a","c","e">>, <<"P","s","w","i","t","c","h">>,
    <<"P","s","w","i","t","c","h","1">>,
    <<"E","v","e","n","t","S","t","r","e","a","m","P","l","a","y","e","r">>,
    <<"R","o","u","t","i","n","e">>, <<"T","a","s","k">>,
    <<"A","r","r","a","y">>, <<"L","i","s","t">>,
    <<"L","i","n","k","e","d","L","i","s","t">>, <<"S","e","t">>,
    <<"I","d","e","n","t","i","t","y","S","e","t">>,
    <<"D","i","c","t","i","o","n","a","r","y">>,
    <<"I","d","e","n","t","i","t","y","D","i","c","t","i","o","n","a","r","y">>,
    <<"E","v","e","n","t">>, <<"E","n","v","i","r","o","n","m","e","n","t">>,
    <<"T","e","m","p","o","C","l","o","c","k">>,
    <<"S","y","s","t","e","m","C","l","o","c","k">>,
    <<"A","p","p","C","l","o","c","k">>, <<"W","i","n","d","o","w">>,
    <<"V","i","e","w">>, <<"S","l","i","d","e","r">>, <<"K","n","o","b">>,
    <<"B","u","t","t","o","n">>, <<"T","e","x","t","F","i","e","l","d">>,
    <<"S","t","a","t","i","c","T","e","x","t">>,
    <<"N","u","m","b","e","r","B","o","x">>,
    <<"F","r","e","q","S","c","o","p","e">>,
    <<"S","t","e","t","h","o","s","c","o","p","e">>,
    <<"S","e","r","v","e","r","M","e","t","e","r">>,
    <<"M","I","D","I","C","l","i","e","n","t">>, <<"M","I","D","I","I","n">>,
    <<"M","I","D","I","O","u","t">>, <<"M","I","D","I","F","u","n","c">>,
    <<"M","I","D","I","d","e","f">>, <<"N","e","t","A","d","d","r">>,
    <<"O","S","C","F","u","n","c">>, <<"O","S","C","d","e","f">>,
    <<"S","t","r","i","n","g">>, <<"S","y","m","b","o","l">>,
    <<"F","l","o","a","t">>, <<"I","n","t","e","g","e","r">>,
    <<"B","o","o","l","e","a","n">>, <<"N","i","l">>,
    <<"O","b","j","e","c","t">>, <<"F","u","n","c","t","i","o","n">>,
    <<"C","l","a","s","s">>, <<"S","i","g","n","a","l">>,
    <<"W","a","v","e","t","a","b","l","e">>,
    <<"F","l","o","a","t","A","r","r","a","y">>,
    <<"I","n","t","8","A","r","r","a","y">>,
    <<"I","n","t","1","6","A","r","r","a","y">>,
    <<"I","n","t","3","2","A","r","r","a","y">>, <<"F","i","l","e">>,
    <<"P","a","t","h","N","a","m","e">>, <<"P","l","a","t","f","o","r","m">>,
    <<"A","r","c","h","i","v","e">>, <<"S","c","o","r","e">>,
    <<"P","o","i","n","t">>, <<"R","e","c","t">>, <<"C","o","l","o","r">>,
    <<"P","e","n">>, <<"C","o","n","d","i","t","i","o","n">>,
    <<"S","e","m","a","p","h","o","r","e">>,
    <<"F","l","o","w","L","a","y","o","u","t">>,
    <<"V","L","a","y","o","u","t">>, <<"H","L","a","y","o","u","t">> >>

SC_METHODS == <<
    <<"p","l","a","y">>, <<"s","t","o","p">>, <<"f","r","e","e">>,
    <<"r","e","l","e","a","s","e">>, <<"s","e","t">>, <<"g","e","t">>,
    <<"a","r">>, <<"k","r">>, <<"i","r">>, <<"t","r">>, <<"n","e","w">>,
    <<"n","e","w","C","l","e","a","r">>, <<"n","e","w","F","r","o","m">>,
    <<"c","o","p","y">>, <<"d","e","e","p","C","o","p","y">>, <<"a","d","d">>,
    <<"a","d","d","A","l","l">>, <<"r","e","m","o","v","e">>,
    <<"r","e","m","o","v","e","A","t">>, <<"p","o","p">>, <<"p","u","s","h">>,
    <<"a","t">>, <<"p","u","t">>, <<"a","t","F","a","i","l">>,
    <<"f","i","r","s","t">>, <<"l","a","s","t">>, <<"s","i","z","e">>,
    <<"i","s","E","m","p","t","y">>, <<"d","o">>,
    <<"c","o","l","l","e","c","t">>, <<"s","e","l","e","c","t">>,
    <<"r","e","j","e","c","t">>, <<"d","e","t","e","c","t">>, <<"a","n","y">>,
    <<"e","v","e","r","y">>, <<"s","u","m">>, <<"m","e","a","n">>,
    <<"m","a","x","I","t","e","m">>, <<"m","i","n","I","t","e","m">>,
    <<"s","o","r","t">>, <<"r","e","v","e","r","s","e">>,
    <<"m","i","d","i","c","p","s">>, <<"c","p","s","m","i","d","i">>,
    <<"m","i","d","i","r","a","t","i","o">>,
    <<"r","a","t","i","o","m","i","d","i">>, <<"a","m","p","d","b">>,
    <<"d","b","a","m","p">>, <<"l","i","n","l","i","n">>,
    <<"l","i","n","e","x","p">>, <<"e","x","p","l","i","n">>,
    <<"e","x","p","e","x","p">>, <<"l","i","n","c","u","r","v","e">>,
    <<"c","u","r","v","e","l","i","n">>, <<"c","l","i","p">>,
    <<"w","r","a","p">>, <<"f","o","l","d">>, <<"r","o","u","n","d">>,
    <<"t","r","u","n","c">>, <<"c","e","i","l">>, <<"f","l","o","o","r">>,
    <<"a","b","s">>, <<"n","e","g">>, <<"r","a","n","d">>,
    <<"r","a","n","d","2">>, <<"r","r","a","n","d">>,
    <<"e","x","p","r","a","n","d">>, <<"b","i","l","i","n","r","a","n","d">>,
    <<"l","i","n","r","a","n","d">>, <<"w","a","i","t">>,
    <<"y","i","e","l","d">>, <<"v","a","l","u","e">>,
    <<"v","a","l","u","e","E","n","v","i","r">>,
    <<"v","a","l","u","e","A","r","r","a","y">>, <<"p","o","s","t","l","n">>,
    <<"p","o","s","t">>, <<"p","o","s","t","f">>, <<"d","e","b","u","g">>,
    <<"t","r","a","c","e">>, <<"a","s","S","t","r","i","n","g">>,
    <<"a","s","S","y","m","b","o","l">>,
    <<"a","s","I","n","t","e","g","e","r">>, <<"a","s","F","l","o","a","t">>,
    <<"a","s","A","r","r","a","y">>, <<"d","u","p">>, <<"b","l","e","n","d">>,
    <<"s","e","r","i","e","s">>, <<"g","e","o","m">>, <<"s","c","o","p","e">>,
    <<"p","l","o","t">>, <<"g","u","i">>, <<"a","s","S","t","r","e","a","m">>,
    <<"e","m","b","e","d","I","n","S","t","r","e","a","m">>,
    <<"r","e","s","e","t">>, <<"n","e","x","t">>, <<"n","e","x","t","N">>,
    <<"a","l","l">> >>

\* the keys of KEYWORD_DOCS
KEYWORD_DOCS == {
    <<"v","a","r">>, <<"a","r","g">>, <<"c","l","a","s","s","v","a","r">>,
    <<"c","o","n","s","t">>, <<"i","f">>, <<"w","h","i","l","e">>,
    <<"f","o","r">>, <<"f","o","r","B","y">>, <<"d","o">>,
    <<"l","o","o","p">>, <<"c","a","s","e">>, <<"s","w","i","t","c","h">>,
    <<"c","o","l","l","e","c","t">>, <<"s","e","l","e","c","t">>,
    <<"r","e","j","e","c","t">>, <<"d","e","t","e","c","t">>, <<"a","n","y">>,
    <<"e","v","e","r","y">>, <<"t","r","u","e">>, <<"f","a","l","s","e">>,
    <<"n","i","l">>, <<"i","n","f">>, <<"p","i">>, <<"t","h","i","s">>,
    <<"s","u","p","e","r">>, <<"t","h","i","s","P","r","o","c","e","s","s">>,
    <<"t","h","i","s","T","h","r","e","a","d">>,
    <<"t","h","i","s","F","u","n","c","t","i","o","n">>,
    <<"t","h","i","s","F","u","n","c","t","i","o","n","D","e","f">>,
    <<"t","h","i","s","M","e","t","h","o","d">> }

\* the keys of CLASS_DOCS
CLASS_DOCS == {
    <<"S","i","n","O","s","c">>, <<"S","a","w">>, <<"P","u","l","s","e">>,
    <<"L","F","S","a","w">>, <<"L","F","P","u","l","s","e">>,
    <<"L","F","N","o","i","s","e","0">>, <<"L","F","N","o","i","s","e","1">>,
    <<"L","F","N","o","i","s","e","2">>,
    <<"W","h","i","t","e","N","o","i","s","e">>,
    <<"P","i","n","k","N","o","i","s","e">>,
    <<"B","r","o","w","n","N","o","i","s","e">>, <<"D","u","s","t">>,
    <<"I","m","p","u","l","s","e">>, <<"L","P","F">>, <<"H","P","F">>,
    <<"B","P","F">>, <<"R","L","P","F">>, <<"R","H","P","F">>,
    <<"R","e","s","o","n","z">>, <<"F","r","e","e","V","e","r","b">>,
    <<"D","e","l","a","y","N">>, <<"D","e","l","a","y","L">>,
    <<"C","o","m","b","N">>, <<"A","l","l","p","a","s","s","N">>,
    <<"P","a","n","2">>, <<"S","p","l","a","y">>, <<"E","n","v","G","e","n">>,
    <<"E","n","v">>, <<"L","i","n","e">>, <<"X","L","i","n","e">>,
    <<"B","u","f","f","e","r">>, <<"P","l","a","y","B","u","f">>,
    <<"R","e","c","o","r","d","B","u","f">>, <<"O","u","t">>, <<"I","n">>,
    <<"L","o","c","a","l","I","n">>, <<"L","o","c","a","l","O","u","t">>,
    <<"S","e","r","v","e","r">>, <<"S","y","n","t","h","D","e","f">>,
    <<"S","y","n","t","h">>, <<"G","r","o","u","p">>, <<"B","u","s">>,
    <<"P","b","i","n","d">>, <<"P","s","e","q">>, <<"P","r","a","n","d">>,
    <<"P","x","r","a","n","d">>, <<"P","w","r","a","n","d">>,
    <<"P","w","h","i","t","e">>, <<"P","e","x","p","r","a","n","d">>,
    <<"P","n">>, <<"P","d","e","f">>, <<"R","o","u","t","i","n","e">>,
    <<"T","a","s","k">>, <<"A","r","r","a","y">>, <<"L","i","s","t">>,
    <<"D","i","c","t","i","o","n","a","r","y">>, <<"E","v","e","n","t">>,
    <<"E","n","v","i","r","o","n","m","e","n","t">>,
    <<"T","e","m","p","o","C","l","o","c","k">>,
    <<"S","y","s","t","e","m","C","l","o","c","k">>,
    <<"A","p","p","C","l","o","c","k">>, <<"W","i","n","d","o","w">>,
    <<"S","l","i","d","e","r">>, <<"B","u","t","t","o","n">>,
    <<"K","n","o","b">>, <<"M","I","D","I","C","l","i","e","n","t">>,
    <<"M","I","D","I","I","n">>, <<"M","I","D","I","F","u","n","c">>,
    <<"N","e","t","A","d","d","r">>, <<"O","S","C","F","u","n","c">>,
    <<"L","a","g">>, <<"M","i","x">>, <<"M","o","u","s","e","X">>,
    <<"M","o","u","s","e","Y">> }

\* the keys of METHOD_DOCS
METHOD_DOCS == {
    <<"p","l","a","y">>, <<"s","t","o","p">>, <<"f","r","e","e">>,
    <<"r","e","l","e","a","s","e">>, <<"s","e","t">>, <<"g","e","t">>,
    <<"a","r">>, <<"k","r">>, <<"i","r">>, <<"n","e","w">>, <<"a","d","d">>,
    <<"d","o">>, <<"c","o","l","l","e","c","t">>, <<"s","e","l","e","c","t">>,
    <<"r","e","j","e","c","t">>, <<"m","i","d","i","c","p","s">>,
    <<"c","p","s","m","i","d","i">>, <<"l","i","n","l","i","n">>,
    <<"l","i","n","e","x","p">>, <<"e","x","p","l","i","n">>,
    <<"c","l","i","p">>, <<"w","r","a","p">>, <<"f","o","l","d">>,
    <<"r","a","n","d">>, <<"r","r","a","n","d">>, <<"p","o","s","t","l","n">>,
    <<"w","a","i","t">>, <<"y","i","e","l","d">>, <<"v","a","l","u","e">>,
    <<"d","u","p">>, <<"s","c","o","p","e">>, <<"p","l","o","t">>,
    <<"a","s","S","t","r","e","a","m">>, <<"n","e","x","t">>,
    <<"r","e","s","e","t">>, <<"s","i","z","e">>, <<"f","i","r","s","t">>,
    <<"l","a","s","t">>, <<"s","u","m">>, <<"m","e","a","n">>,
    <<"s","o","r","t">>, <<"r","e","v","e","r","s","e">> }

\* the names every object literal answers to besides its own keys
ObjectPrototype == {
    <<"c","o","n","s","t","r","u","c","t","o","r">>,
    <<"h","a","s","O","w","n","P","r","o","p","e","r","t","y">>,
    <<"i","s","P","r","o","t","o","t","y","p","e","O","f">>,
    <<"p","r","o","p","e","r","t","y","I","s","E","n","u","m","e","r","a","b","l","e">>,
    <<"t","o","L","o","c","a","l","e","S","t","r","i","n","g">>,
    <<"t","o","S","t","r","i","n","g">>,
    <<"v","a","l","u","e","O","f">>,
    <<"_","_","p","r","o","t","o","_","_">>,
    <<"_","_","d","e","f","i","n","e","G","e","t","t","e","r","_","_">>,
    <<"_","_","d","e","f","i","n","e","S","e","t","t","e","r","_","_">>,
    <<"_","_","l","o","o","k","u","p","G","e","t","t","e","r","_","_">>,
    <<"_","_","l","o","o","k","u","p","S","e","t","t","e","r","_","_">> }

Undefined == [table |-> "undefined", key |-> <<>>]

\* table[key] of an object literal: the entry of an own key, an inherited
\* member, or undefined
Get(table, name, key) ==
    IF key \in table THEN [table |-> name, key |-> key]
    ELSE IF key \in ObjectPrototype
    THEN [table |-> "Object.prototype", key |-> key]
    ELSE Undefined

ModeChars == {"d", "o", "I", "n", "i", "r", "~", " ", "\n"}

\* further texts: a documented class, an environment variable, an
\* undocumented method and an identifier of no table
SampleTexts ==
    { <<"S", "i", "n", "O", "s", "c">>,
      <<"~", "f", "r", "e", "q">>,
      <<"a", "b", "s">>,
      <<"v", "a", "l", "u", "e", "O", "f">> }

ModeDocuments ==
    (UNION { [1..n -> ModeChars] : n \in 0..MaxText }) \cup SampleTexts

\* document.positionAt(offset)
PositionAt(text, offset) ==
    LET breaks == {i \in 1..offset : text[i] = "\n"}
        lineStart == IF breaks = {} THEN 0
                     ELSE CHOOSE i \in breaks : \A j \in breaks : j <= i
    IN  [line |-> Cardinality(breaks), character |-> offset - lineStart]

\* the first loop of getWordAtPosition
RECURSIVE ScanStart(_, _)
ScanStart(text, start) ==
    IF start > 0 /\ text[start] \in WordCharsOrTilde
    THEN ScanStart(text, start - 1)
    ELSE start

\* the second loop of getWordAtPosition
RECURSIVE ScanEnd(_, _)
ScanEnd(text, end) ==
    IF end < Len(text) /\ text[end + 1] \in WordChars
    THEN ScanEnd(text, end + 1)
    ELSE end

GetWordAtPosition(text, position) ==
    LET offset == OffsetAt(text, position)
        start  == ScanStart(text, offset)
        end    == ScanEnd(text, offset)
    IN  [word |-> SubSeq(text, start + 1, end), start |-> start, end |-> end]

\* the items one loop of doComplete pushes
Matches(names, wordLower, kind, detail, docs, docsName) ==
    LET hits == SelectSeq(names,
                    LAMBDA n : StartsWith(ToLowerCase(n), wordLower))
    IN  [i \in 1..Len(hits) |->
            [ label         |-> hits[i],
              kind          |-> kind,
              detail        |-> detail,
              documentation |-> Get(docs, docsName, hits[i]) ]]

DoComplete(text, position) ==
    LET word      == GetWordAtPosition(text, position).word
        wordLower == ToLowerCase(word)
    IN  [ items |->
              Matches(SC_KEYWORDS, wordLower, "Keyword",
                      "SuperCollider keyword", KEYWORD_DOCS, "KEYWORD_DOCS")
              \o Matches(SC_CLASSES, wordLower, "Class",
                         "SuperCollider class", CLASS_DOCS, "CLASS_DOCS")
              \o Matches(SC_METHODS, wordLower, "Method",
                         "SuperCollider method", METHOD_DOCS, "METHOD_DOCS"),
          isIncomplete |-> FALSE ]

NullHover == [kind |-> "null"]

\* the Hover doHover builds from an entry
Hover(text, value, w) ==
    [ kind     |-> "Hover",
      contents |-> [kind |-> "markdown", value |-> value],
      range    |-> [ start |-> PositionAt(text, w.start),
                     end   |-> PositionAt(text, w.end) ] ]

DoHover(text, position) ==
    LET w == GetWordAtPosition(text, position)
        k == Get(KEYWORD_DOCS, "KEYWORD_DOCS", w.word)
        c == Get(CLASS_DOCS, "CLASS_DOCS", w.word)
        m == Get(METHOD_DOCS, "METHOD_DOCS", w.word)
    IN  IF w.word = <<>> THEN NullHover
        ELSE IF k # Undefined THEN Hover(text, k, w)
        ELSE IF c # Undefined THEN Hover(text, c, w)
        ELSE IF m # Undefined THEN Hover(text, m, w)
        ELSE NullHover

ModeInit ==
    /\ deactivated = FALSE
    /\ platform = "darwin"
    /\ config = ""
    /\ sclangProcess = NoProc
    /\ procs = <<>>
    /\ sclangOutput = <<>>
    /\ postWindowOutput = <<>>
    /\ errorMessages = <<>>
    /\ timers = <<>>
    /\ spawnCalls = <<>>
    /\ execCalls = 0
    /\ document \in ModeDocuments
    /\ \E position \in Positions(document) :
           selection = [anchor |-> position, active |-> position]
    /\ last = Op("open", <<>>)

\* a completion request at the cursor
CompletionRequest ==
    /\ last' = Op("doComplete", DoComplete(document, selection.active))
    /\ UNCHANGED << deactivated, platform, config, document, selection, sclangProcess,
                    procs, sclangOutput, postWindowOutput, errorMessages,
                    timers, spawnCalls, execCalls >>

\* a hover request at the cursor
HoverRequest ==
    /\ last' = Op("doHover", DoHover(document, selection.active))
    /\ UNCHANGED << deactivated, platform, config, document, selection, sclangProcess,
                    procs, sclangOutput, postWindowOutput, errorMessages,
                    timers, spawnCalls, execCalls >>

ModeNext ==
    \/ CompletionRequest
    \/ HoverRequest

ModeSpec == ModeInit /\ [][ModeNext]_vars

(***************************************************************************)
(* Vocabulary of the properties.                                           *)
(***************************************************************************)
Pids == 1..Len(procs)

\* a spawned process that has neither exited, failed nor been killed
Alive(p) == procs[p].live /\ ~procs[p].killed

\* the step delivers the 'error' event of p / the 'exit' event of p
ErrorOf(p) == last'.op = "error" /\ procs[p].err # "none" /\ procs'[p].err = "none"
ExitOf(p) == last'.op = "exit" /\ procs[p].live /\ ~procs'[p].live

LastLine == sclangOutput[Len(sclangOutput)]

\* C1: at most one spawned process is alive at any time, and a process that
\* is alive is the one the handle sclangProcess references.
AtMostOneLiveHandle ==
    \A p \in Pids :
        Alive(p) =>
            /\ sclangProcess = p
            /\ \A q \in Pids : Alive(q) => q = p

\* C2: a start request while a handle is held spawns nothing, leaves the
\* handle, the processes and the post window unchanged, reports success, and
\* appends exactly the 'already running' line to the lifecycle transcript.
StartWhileHeldIsIdempotent ==
    [][ (last'.op = "start" /\ sclangProcess # NoProc) =>
            /\ \A outcome \in SpawnOutcomes : StartSclang(outcome).ret
            /\ sclangProcess' = sclangProcess
            /\ procs' = procs
            /\ spawnCalls' = spawnCalls
            /\ postWindowOutput' = postWindowOutput
            /\ errorMessages' = errorMessages
            /\ timers' = timers
            /\ sclangOutput' =
                 Append(sclangOutput, <<"[SuperCollider] sclang already running">>)
      ]_vars

\* a start request was answered 'already running' while the held process
\* was still starting (its spawn failure not yet reported)
StartWhileHeldWitness ==
    /\ last.op = "start"
    /\ LastLine = <<"[SuperCollider] sclang already running">>
    /\ sclangProcess # NoProc
    /\ ~procs[sclangProcess].started

\* the fragment is not empty and not only whitespace
NonBlank(code) == \E i \in 1..Len(code) : code[i] \notin WhiteSpace

\* the text of a fragment between its first and last non-whitespace character
Trimmed(code) ==
    LET idx == {i \in 1..Len(code) : code[i] \notin WhiteSpace}
        lo  == CHOOSE i \in idx : \A j \in idx : i <= j
        hi  == CHOOSE i \in idx : \A j \in idx : j <= i
    IN  IF idx = {} THEN <<>> ELSE SubSeq(code, lo, hi)

\* C3 (as claimed): execute of a non-blank fragment in state Stopped spawns a
\* process that is then held, and when the warm-up timer of a non-blank
\* fragment fires the trimmed fragment followed by ESC is written to a
\* process input.
ExecuteFromStoppedAlwaysWrites ==
    [][ /\ (last'.op = "execute" /\ NonBlank(last'.text)
                /\ sclangProcess = NoProc) =>
              /\ Len(procs') = Len(procs) + 1
              /\ sclangProcess' = Len(procs')
        /\ (last'.op = "timer" /\ NonBlank(last'.text)) =>
              \E p \in Pids :
                  procs'[p].written =
                      Append(procs[p].written, Trimmed(last'.text) \o <<ESC>>)
      ]_vars

\* C3 (amended): execute of a non-blank fragment in state Stopped calls spawn
\* once; unless that call throws, the new process is held and the send is
\* scheduled behind the sends already pending; if it throws, the session
\* stays Stopped and nothing is scheduled.  When the timer fires and the
\* handle then references a process with an input stream, exactly the
\* trimmed fragment followed by ESC is written to that process; otherwise
\* nothing is written.  Every pending timer eventually fires.
ExecuteFromStoppedWritesIfHeld ==
    /\ [][ /\ (last'.op = "execute" /\ NonBlank(last'.text)
                   /\ sclangProcess = NoProc) =>
                 /\ Len(spawnCalls') = Len(spawnCalls) + 1
                 /\ \/ /\ Len(procs') = Len(procs) + 1
                       /\ sclangProcess' = Len(procs')
                       /\ timers' = Append(timers, last'.text)
                    \/ /\ procs' = procs
                       /\ sclangProcess' = NoProc
                       /\ timers' = timers
                       /\ Len(errorMessages') = Len(errorMessages) + 1
           /\ (last'.op = "timer" /\ NonBlank(last'.text)) =>
                 /\ last'.text = Head(timers)
                 /\ timers' = Tail(timers)
                 /\ sclangProcess' = sclangProcess
                 /\ IF sclangProcess # NoProc /\ procs[sclangProcess].stdin
                    THEN procs' = [procs EXCEPT ![sclangProcess].written =
                               Append(@, Trimmed(last'.text) \o <<ESC>>)]
                    ELSE procs' = procs
         ]_vars
    /\ (timers # <<>>) ~> (last.op = "timer")

\* the timer of an execute issued in state Stopped has fired and the
\* fragment " a\nb " reached the input of the process spawned for it
ExecuteFromStoppedWitness ==
    /\ last.op = "timer"
    /\ last.text = <<" ", "a", "\n", "b", " ">>
    /\ Len(procs) = 1
    /\ sclangProcess = 1
    /\ procs[1].written = << <<"a", "\n", "b", ESC>> >>

\* C4: execute of an empty or whitespace-only fragment, and the firing of
\* its timer, spawn no process, write to no process input and append no
\* echo line.
BlankExecuteIsNoOp ==
    [][ (last'.op \in {"execute", "timer"} /\ ~NonBlank(last'.text)) =>
            /\ spawnCalls' = spawnCalls
            /\ procs' = procs
            /\ sclangProcess' = sclangProcess
            /\ postWindowOutput' = postWindowOutput
      ]_vars

\* C5: on a Linux host, the 'not found' error of a process spawned as
\* `sclang` issues exactly one spawn call, with `sclang.exe`: either the retry
\* is spawned and held, or it fails at once, and then the failure is surfaced
\* as a notification and the handle is cleared; the error of a process
\* spawned as `sclang.exe` issues no spawn call, surfaces the failure as a
\* notification and clears the handle.
SingleFallbackRetry ==
    [][ \A p \in Pids : ErrorOf(p) =>
            /\ (platform = "linux" /\ procs[p].path = "sclang"
                    /\ procs[p].err = "ENOENT") =>
                  /\ spawnCalls' = Append(spawnCalls, "sclang.exe")
                  /\ \/ /\ Len(procs') = Len(procs) + 1
                        /\ procs'[Len(procs')].path = "sclang.exe"
                        /\ sclangProcess' = Len(procs')
                     \/ /\ Len(procs') = Len(procs)
                        /\ sclangProcess' = NoProc
                        /\ Len(errorMessages') = Len(errorMessages) + 1
            /\ procs[p].path = "sclang.exe" =>
                  /\ spawnCalls' = spawnCalls
                  /\ procs' = [procs EXCEPT ![p].err = "none"]
                  /\ sclangProcess' = NoProc
                  /\ Len(errorMessages') = Len(errorMessages) + 1
                  /\ errorMessages'[Len(errorMessages')][2] = "sclang.exe"
      ]_vars

\* C6: the 'error' event of a cause other than 'not found' issues no spawn
\* call and surfaces a notification, whatever the path and the platform.
OtherErrorsNeverRetried ==
    [][ \A p \in Pids : (ErrorOf(p) /\ procs[p].err # "ENOENT") =>
            /\ spawnCalls' = spawnCalls
            /\ Len(procs') = Len(procs)
            /\ Len(errorMessages') = Len(errorMessages) + 1
      ]_vars

\* C7: stop with a handle held clears the handle at once, spawns nothing and
\* sends no signal to any other process; the held process, if it runs, is
\* sent one termination signal and still runs; the start or execute request
\* that follows a stop, issued with no handle held, calls spawn once and
\* holds the fresh process.
StopDiscardsHandleAtOnce ==
    [][ /\ (last'.op = "stop" /\ sclangProcess # NoProc) =>
              /\ sclangProcess' = NoProc
              /\ Len(procs') = Len(procs)
              /\ spawnCalls' = spawnCalls
              /\ \A q \in Pids :
                    /\ procs'[q].live = procs[q].live
                    /\ (q = sclangProcess /\ procs[q].live) =>
                           procs'[q].signals = procs[q].signals + 1
                    /\ q # sclangProcess =>
                           procs'[q].signals = procs[q].signals
        /\ (last.op = "stop" /\ last'.op \in {"start", "execute"}
                /\ sclangProcess = NoProc) =>
              /\ Len(spawnCalls') = Len(spawnCalls) + 1
              /\ Len(procs') = Len(procs) + 1
              /\ sclangProcess' = Len(procs')
              /\ procs'[sclangProcess'].signals = 0
      ]_vars

\* C8: stop with no handle held changes nothing: no signal, no notification,
\* no line on either transcript, no spawn, the handle stays empty.
StopWhenStoppedIsNoOp ==
    [][ (last'.op = "stop" /\ sclangProcess = NoProc) =>
            /\ sclangProcess' = NoProc
            /\ procs' = procs
            /\ sclangOutput' = sclangOutput
            /\ postWindowOutput' = postWindowOutput
            /\ errorMessages' = errorMessages
            /\ timers' = timers
            /\ spawnCalls' = spawnCalls
      ]_vars

\* stop was requested with no handle held, after an earlier stop had
\* signalled the process: the stopped process holds a single signal
StopWhenStoppedWitness ==
    /\ last.op = "stop"
    /\ sclangProcess = NoProc
    /\ Len(procs) = 1
    /\ procs[1].live /\ procs[1].signals = 1
    /\ sclangOutput = << LineActivated,
                         <<"[SuperCollider] Starting sclang: ", "sclang">>,
                         LineSpawned, LineStopping, LineStopped >>
    /\ execCalls = 0

\* C9: the 'exit' or 'error' event of a process other than the one the
\* handle references leaves the handle as it is.
ObserversLeaveOtherHandle ==
    [][ \A p \in Pids :
            ((ErrorOf(p) \/ ExitOf(p))
                /\ sclangProcess # NoProc /\ sclangProcess # p) =>
                    sclangProcess' = sclangProcess
      ]_vars

\* C10: stop leaves the pending sends as they are; a send that fires with no
\* process held surfaces 'sclang is not running', writes nothing, echoes
\* nothing and spawns nothing; while a send is pending and no process is
\* held, a send eventually fires.
StopDoesNotCancelSend ==
    /\ [][ /\ last'.op = "stop" => timers' = timers
           /\ (last'.op = "timer" /\ sclangProcess = NoProc) =>
                 /\ timers' = Tail(timers)
                 /\ errorMessages' =
                        Append(errorMessages, <<"sclang is not running">>)
                 /\ procs' = procs
                 /\ postWindowOutput' = postWindowOutput
                 /\ spawnCalls' = spawnCalls
                 /\ sclangProcess' = NoProc
         ]_vars
    /\ (timers # <<>> /\ sclangProcess = NoProc) ~> (last.op = "timer")

\* execute in state Stopped spawned a process, stop signalled it during the
\* warm-up, and the send then fired with no process held
StopDoesNotCancelSendWitness ==
    /\ last.op = "timer"
    /\ NonBlank(last.text)
    /\ sclangProcess = NoProc
    /\ Len(procs) = 1
    /\ procs[1].live /\ procs[1].killed /\ procs[1].written = <<>>
    /\ LastLine = LineStopped
    /\ errorMessages = << <<"sclang is not running">> >>
    /\ postWindowOutput = <<>>

\* C11: the session leaves Stopped only through a start or execute request:
\* a step that is neither, taken with no handle held (as after stop has
\* returned), spawns no process and leaves the handle empty, also when it
\* delivers the error event of the stopped process.
LeavesStoppedOnlyOnRequest ==
    [][ (sclangProcess = NoProc /\ last'.op \notin {"start", "execute"}) =>
            /\ sclangProcess' = NoProc
            /\ spawnCalls' = spawnCalls
            /\ Len(procs') = Len(procs)
      ]_vars

\* C12: every payload written to a process input is the trimmed text of a
\* non-blank fragment followed by ESC as its only further character.
PayloadsAreTrimmedPlusEsc ==
    \A p \in Pids : \A i \in 1..Len(procs[p].written) :
        LET w == procs[p].written[i] IN
        /\ Len(w) >= 2
        /\ w[Len(w)] = ESC
        /\ \E code \in CodeInputs :
               /\ NonBlank(code)
               /\ SubSeq(w, 1, Len(w) - 1) = Trimmed(code)

\* a payload has been written to the input of the `sclang.exe` process
\* spawned by the fallback
PayloadsWitness ==
    /\ Len(procs) = 2
    /\ procs[2].path = "sclang.exe"
    /\ procs[2].written = << <<"a", "\n", "b", ESC>> >>

\* C13: execute of a non-blank fragment while a process with an input stream
\* is held writes the trimmed fragment followed by ESC to that process in the
\* same step, spawns nothing and schedules no timer.
ExecuteWhileHeldSendsAtOnce ==
    [][ (last'.op = "execute" /\ NonBlank(last'.text)
            /\ sclangProcess # NoProc /\ procs[sclangProcess].stdin) =>
            /\ procs' = [procs EXCEPT ![sclangProcess].written =
                            Append(@, Trimmed(last'.text) \o <<ESC>>)]
            /\ spawnCalls' = spawnCalls
            /\ timers' = timers
            /\ sclangProcess' = sclangProcess
            /\ errorMessages' = errorMessages
      ]_vars

\* execute was called while the process started by a start request was
\* running: the payload is on its input and no timer is pending
ExecuteWhileHeldWitness ==
    /\ last.op = "execute"
    /\ Len(procs) = 1
    /\ sclangProcess = 1
    /\ procs[1].live
    /\ procs[1].written = << <<"a", "\n", "b", ESC>> >>
    /\ timers = <<>>
    /\ Len(spawnCalls) = 1

\* C14: a send (the immediate one of an execute with a process held, or the
\* delayed one of a timer) that finds no process held, or the held process
\* not running or without input stream, surfaces 'sclang is not running' and
\* nothing else: no write, no echo, no spawn, the handle as it was, and the
\* fragment is not kept among the pending sends.
SendWithoutStreamIsDropped ==
    [][ ( /\ \/ last'.op = "timer"
             \/ last'.op = "execute" /\ sclangProcess # NoProc
          /\ \/ sclangProcess = NoProc
             \/ ~procs[sclangProcess].live
             \/ ~procs[sclangProcess].stdin ) =>
            /\ errorMessages' =
                   Append(errorMessages, <<"sclang is not running">>)
            /\ procs' = procs
            /\ postWindowOutput' = postWindowOutput
            /\ spawnCalls' = spawnCalls
            /\ sclangProcess' = sclangProcess
            /\ timers' = IF last'.op = "timer" THEN Tail(timers) ELSE timers
      ]_vars

\* C15: executing an empty or whitespace-only fragment, and the firing of
\* its timer, never surfaces a notification.
BlankNeverNotifies ==
    [][ (last'.op \in {"execute", "timer"} /\ ~NonBlank(last'.text)) =>
            errorMessages' = errorMessages
      ]_vars

\* C16 (as claimed): the exit of the held process by itself appends the line
\* with its exit code to the lifecycle transcript, surfaces no notification
\* and clears the handle; the execute of a non-blank fragment that follows
\* spawns a new process, holds it, schedules the delayed send and surfaces
\* no notification.
ExitThenExecuteAlwaysSpawns ==
    [][ /\ \A p \in Pids :
              (ExitOf(p) /\ sclangProcess = p /\ ~procs[p].killed) =>
                  /\ last'.text \in {<<"0">>, <<"3">>, <<"null">>}
                  /\ sclangOutput' = Append(sclangOutput,
                         <<"[SuperCollider] sclang exited with code ">>
                             \o last'.text)
                  /\ errorMessages' = errorMessages
                  /\ sclangProcess' = NoProc
                  /\ spawnCalls' = spawnCalls
                  /\ timers' = timers
        /\ (last.op = "exit" /\ last'.op = "execute" /\ NonBlank(last'.text)) =>
              /\ Len(spawnCalls') = Len(spawnCalls) + 1
              /\ Len(procs') = Len(procs) + 1
              /\ sclangProcess' = Len(procs')
              /\ timers' = Append(timers, last'.text)
              /\ errorMessages' = errorMessages
      ]_vars

\* C16: the exit of the held process by itself appends the line with its
\* exit code to the lifecycle transcript, surfaces no notification and clears
\* the handle; the execute of a non-blank fragment that follows takes the
\* start path instead of reporting 'sclang is not running': it calls spawn
\* once and, unless that call throws, holds the new process and schedules
\* the delayed send.
ExitRevertsToStopped ==
    [][ /\ \A p \in Pids :
              (ExitOf(p) /\ sclangProcess = p /\ ~procs[p].killed) =>
                  /\ last'.text \in {<<"0">>, <<"3">>, <<"null">>}
                  /\ sclangOutput' = Append(sclangOutput,
                         <<"[SuperCollider] sclang exited with code ">>
                             \o last'.text)
                  /\ errorMessages' = errorMessages
                  /\ sclangProcess' = NoProc
                  /\ spawnCalls' = spawnCalls
                  /\ timers' = timers
        /\ (last.op = "exit" /\ last'.op = "execute" /\ NonBlank(last'.text)) =>
              /\ Len(spawnCalls') = Len(spawnCalls) + 1
              /\ \/ /\ Len(procs') = Len(procs) + 1
                    /\ sclangProcess' = Len(procs')
                    /\ timers' = Append(timers, last'.text)
                    /\ errorMessages' = errorMessages
                 \/ /\ procs' = procs
                    /\ sclangProcess' = NoProc
                    /\ timers' = timers
                    /\ errorMessages' = Append(errorMessages, MsgFailedToStart)
      ]_vars

\* the process of a start request exited by itself and the execute that
\* followed spawned a second process and scheduled its send
ExitRevertsToStoppedWitness ==
    /\ last.op = "execute"
    /\ NonBlank(last.text)
    /\ Len(procs) = 2
    /\ procs[1].started /\ ~procs[1].live /\ ~procs[1].killed
    /\ sclangProcess = 2
    /\ timers = << last.text >>
    /\ errorMessages = <<>>

\* C17: a start or execute request issued with no handle held ends either
\* with the new process held, success returned and no notification (and, for
\* execute, the send scheduled), or, when spawn throws, with no handle held,
\* failure returned, the 'Failed to start' notification surfaced and no send
\* scheduled.
StartEndsStartingOrStopped ==
    [][ (last'.op \in {"start", "execute"} /\ sclangProcess = NoProc) =>
            /\ \A outcome \in SpawnOutcomes :
                   StartSclang(outcome).ret
                       <=> StartSclang(outcome).sclangProcess # NoProc
            /\ \/ /\ sclangProcess' = Len(procs) + 1
                  /\ Len(procs') = Len(procs) + 1
                  /\ errorMessages' = errorMessages
                  /\ last'.op = "execute" => timers' = Append(timers, last'.text)
               \/ /\ sclangProcess' = NoProc
                  /\ procs' = procs
                  /\ Len(errorMessages') = Len(errorMessages) + 1
                  /\ errorMessages'[Len(errorMessages')][1] =
                         "Failed to start sclang. Make sure SuperCollider is installed and sclangPath is configured."
                  /\ timers' = timers
                  /\ postWindowOutput' = postWindowOutput
      ]_vars

\* execute of a non-blank fragment in state Stopped whose spawn threw: the
\* failure is surfaced, nothing is held and no send is pending
StartThrowWitness ==
    /\ last.op = "execute"
    /\ NonBlank(last.text)
    /\ procs = <<>>
    /\ Len(spawnCalls) = 1
    /\ sclangProcess = NoProc
    /\ timers = <<>>
    /\ Len(errorMessages) = 1

(***************************************************************************)
(* Vocabulary of the block properties, over the document and the selection *)
(* of the state.  Characters are counted from 1, offsets from 0: the       *)
(* cursor at offset o stands between character o and character o + 1.      *)
(***************************************************************************)
NewlinesAt == {i \in 1..Len(document) : document[i] = "\n"}

\* number of characters before line l
LineStart(l) ==
    IF l = 0 THEN 0
    ELSE CHOOSE i \in NewlinesAt :
             Cardinality({j \in NewlinesAt : j < i}) = l - 1

\* number of characters before a position
Offset(position) == LineStart(position.line) + position.character

Cursor == Offset(selection.active)

\* the characters between the two ends of the selection
SelectedText ==
    LET a  == Offset(selection.anchor)
        b  == Offset(selection.active)
        lo == IF a <= b THEN a ELSE b
        hi == IF a <= b THEN b ELSE a
    IN  [i \in 1..(hi - lo) |-> document[lo + i]]

Count(ch, a, b) == Cardinality({i \in a..b : document[i] = ch})

\* character s is an opening parenthesis and character e the closing
\* parenthesis that matches it
Matching(s, e) ==
    /\ s < e
    /\ document[s] = "("
    /\ document[e] = ")"
    /\ Count("(", s + 1, e - 1) = Count(")", s + 1, e - 1)
    /\ \A k \in (s + 1)..(e - 1) :
           Count(")", s + 1, k) <= Count("(", s + 1, k)

\* the matching pairs the cursor lies between
Enclosing ==
    { pr \in (1..Len(document)) \X (1..Len(document)) :
          Matching(pr[1], pr[2]) /\ pr[1] <= Cursor /\ Cursor < pr[2] }

Nearest == CHOOSE pr \in Enclosing : \A q \in Enclosing : q[1] <= pr[1]

Outermost == CHOOSE pr \in Enclosing : \A q \in Enclosing : pr[1] <= q[1]

\* the text from an opening parenthesis through its closing one
Span(pr) == SubSeq(document, pr[1], pr[2])

\* C18: with a non-empty selection, the fragment the block command hands to
\* execute is the selected text, character for character, whatever the
\* parentheses of the document and whichever end of the selection holds the
\* cursor.
SelectionIsSentUnmodified ==
    (last.op = "execute" /\ selection.anchor # selection.active) =>
        last.text = SelectedText

\* the block command ran on "( \n)" with the selection drawn backwards from
\* the end of the text to offset 1: the fragment keeps its leading blank and
\* its line break
SelectionWitness ==
    /\ last.op = "execute"
    /\ document = <<"(", " ", "\n", ")">>
    /\ selection = [ anchor |-> [line |-> 1, character |-> 1],
                     active |-> [line |-> 0, character |-> 1] ]
    /\ last.text = <<" ", "\n", ")">>

\* C19: with an empty selection and the cursor between an opening
\* parenthesis and its matching closing one, the fragment is the text from
\* the nearest such opening parenthesis through its matching closing one.
NearestEnclosingBlockIsSent ==
    (last.op = "execute" /\ selection.anchor = selection.active
        /\ Enclosing # {}) =>
            last.text = Span(Nearest)

\* C20: with an empty selection and the cursor inside nested pairs of
\* matching parentheses, the fragment is the text of the outermost pair
\* around the cursor.
OutermostEnclosingBlockIsSent ==
    (last.op = "execute" /\ selection.anchor = selection.active
        /\ Cardinality(Enclosing) >= 2) =>
            last.text = Span(Outermost)

\* the text of the line the cursor is on, without its line break
CursorLine ==
    LET lo == LineStart(selection.active.line)
        nl == {i \in NewlinesAt : i > lo}
        hi == IF nl = {} THEN Len(document) + 1
              ELSE CHOOSE i \in nl : \A j \in nl : i <= j
    IN  SubSeq(document, lo + 1, hi - 1)

\* C21: with an empty selection and no parenthesis pair around the cursor
\* (taken here in its plainest form: the document holds no opening
\* parenthesis at all), the fragment is the text of the cursor's line as it
\* stands, leading and trailing whitespace included.
RawLineIsSent ==
    (last.op = "execute" /\ selection.anchor = selection.active
        /\ \A i \in 1..Len(document) : document[i] # "(") =>
            last.text = CursorLine

\* C22: with an empty selection, when the backward scan from the cursor
\* finds no unmatched opening parenthesis, or the forward scan from the one
\* it found reaches the end of the text before the depth returns to zero,
\* the fragment is the text of the cursor's line.
UnbalancedFallsThroughToLine ==
    (last.op = "execute" /\ selection.anchor = selection.active
        /\ LET startOffset == SearchBackwards(document, Cursor, 0) IN
           \/ startOffset < 0
           \/ SearchForwards(document, startOffset, 0) < 0) =>
            last.text = CursorLine

\* C23: the fragment of the block command is a string, and it is the empty
\* string only when the selection is empty, no parenthesis pair encloses the
\* cursor and the cursor's line has no character; a line of whitespace only
\* that no pair encloses yields that whitespace.
FragmentEmptyOnlyForEmptyLine ==
    last.op = "execute" =>
        /\ last.text \in Seq(DocChars)
        /\ last.text = <<>> =>
              /\ selection.anchor = selection.active
              /\ Enclosing = {}
              /\ CursorLine = <<>>
        /\ (selection.anchor = selection.active /\ Enclosing = {}
                /\ CursorLine # <<>>
                /\ \A i \in 1..Len(CursorLine) : CursorLine[i] = " ") =>
              last.text = CursorLine

\* the block command ran with the cursor in the middle of a line of two
\* blanks that follows a blank line: the two blanks are the fragment
BlankLineWitness ==
    /\ last.op = "execute"
    /\ document = <<"\n", " ", " ">>
    /\ selection = [ anchor |-> [line |-> 1, character |-> 1],
                     active |-> [line |-> 1, character |-> 1] ]
    /\ last.text = <<" ", " ">>

\* C30: when the block command, run with an empty selection, takes the
\* parenthesised block (both scans succeed), the span [start, end) it found
\* has start <= cursor offset < end, opens with `(`, closes with `)` which
\* matches that `(` (the depth is at least 1 before the last character and 0
\* after it), and the fragment is the text of the document from start to end.
BlockSpanIsBalancedAroundCursor ==
    (last.op = "execute" /\ selection.anchor = selection.active) =>
        LET start == SearchBackwards(document, Cursor, 0)
            end   == IF start >= 0 THEN SearchForwards(document, start, 0)
                     ELSE -1
        IN  (start >= 0 /\ end > start) =>
                /\ start <= Cursor
                /\ Cursor < end
                /\ document[start + 1] = "("
                /\ document[end] = ")"
                /\ Matching(start + 1, end)
                /\ last.text = [i \in 1..(end - start) |-> document[start + i]]

\* the block command ran on "( ())" with the cursor after the first
\* parenthesis: the whole text, with the pair nested in it, is the fragment
BlockSpanWitness ==
    /\ last.op = "execute"
    /\ document = <<"(", " ", "(", ")", ")">>
    /\ selection = [ anchor |-> [line |-> 0, character |-> 1],
                     active |-> [line |-> 0, character |-> 1] ]
    /\ last.text = <<"(", " ", "(", ")", ")">>

\* C24: the error event of a process spawns `sclang.exe` only if the process
\* was spawned as `sclang` on a Linux or Windows host; for any other path or
\* platform it spawns nothing, surfaces one notification that names the path
\* and the setting supercollider.sclangPath, and clears the handle.
FallbackOnlyForDefaultPath ==
    [][ \A p \in Pids : ErrorOf(p) =>
            /\ spawnCalls' # spawnCalls =>
                  /\ procs[p].path = "sclang"
                  /\ platform \in {"linux", "win32"}
                  /\ spawnCalls' = Append(spawnCalls, "sclang.exe")
            /\ (procs[p].path # "sclang" \/ platform \notin {"linux", "win32"}) =>
                  /\ spawnCalls' = spawnCalls
                  /\ Len(procs') = Len(procs)
                  /\ sclangProcess' = NoProc
                  /\ Len(errorMessages') = Len(errorMessages) + 1
                  /\ LET msg == errorMessages'[Len(errorMessages')] IN
                         /\ msg[1] = "Failed to start sclang ("
                         /\ msg[2] = procs[p].path
                         /\ msg[Len(msg)] =
                                ". Check supercollider.sclangPath setting."
      ]_vars

\* on Linux the configured path /opt/sc/sclang failed to spawn and its error
\* has been reported: one spawn call, one notification naming the path, no
\* handle
FallbackOnlyForDefaultPathWitness ==
    /\ platform = "linux"
    /\ last.op = "error"
    /\ spawnCalls = <<"/opt/sc/sclang">>
    /\ sclangProcess = NoProc
    /\ Len(errorMessages) = 1
    /\ errorMessages[1][2] = "/opt/sc/sclang"

\* one sequence is the beginning of the other
IsPrefix(a, b) == Len(a) <= Len(b) /\ SubSeq(b, 1, Len(a)) = a

\* C27: a chunk arriving on standard output or standard error is appended as
\* it is to the end of the interpreter transcript, whatever the transcript
\* holds already; and every step leaves the content of either transcript as
\* the beginning of its new content.
ChunksAreAppendedInOrder ==
    [][ /\ last'.op \in {"stdout", "stderr"} =>
              /\ postWindowOutput' = postWindowOutput \o << last'.text >>
              /\ sclangOutput' = sclangOutput
        /\ IsPrefix(postWindowOutput, postWindowOutput')
        /\ IsPrefix(sclangOutput, sclangOutput')
      ]_vars

\* the same chunk arrived on standard output and then on standard error:
\* the interpreter transcript holds it twice
ChunksWitness ==
    /\ last.op = "stderr"
    /\ postWindowOutput = << <<"o", "k", "\n">>, <<"o", "k", "\n">> >>

\* what handing a statement of one line to execute does: sent at once, with
\* its echo, to a held process that has an input stream; reported as not
\* running when the held process has none; and otherwise one spawn, with
\* the statement left to the timer unless the spawn threw
ExecutesStatement(statement) ==
    /\ last' = Op("execute", statement)
    /\ IF sclangProcess # NoProc /\ ~procs[sclangProcess].killed
       THEN /\ spawnCalls' = spawnCalls
            /\ timers' = timers
            /\ sclangProcess' = sclangProcess
            /\ sclangOutput' = sclangOutput
            /\ IF procs[sclangProcess].stdin
               THEN /\ procs' = [procs EXCEPT ![sclangProcess].written =
                                    Append(@, statement \o <<ESC>>)]
                    /\ postWindowOutput' = Append(postWindowOutput,
                            <<"\n", "-", ">", " ">> \o statement \o <<"\n">>)
                    /\ errorMessages' = errorMessages
               ELSE /\ procs' = procs
                    /\ postWindowOutput' = postWindowOutput
                    /\ errorMessages' =
                            Append(errorMessages, <<"sclang is not running">>)
       ELSE /\ Len(spawnCalls') = Len(spawnCalls) + 1
            /\ postWindowOutput' = postWindowOutput
            /\ \A p \in Pids : procs'[p].written = procs[p].written
            /\ \/ timers' = Append(timers, statement)
               \/ /\ timers' = timers
                  /\ sclangProcess' = NoProc
                  /\ Len(errorMessages') = Len(errorMessages) + 1

\* C25: bootServer, rebootServer, killServer and stopAllSounds do what
\* execute does with `s.boot;`, `s.reboot;`, `s.quit;` and `CmdPeriod.run;`:
\* with a process held that has an input stream the statement followed by
\* ESC is written to it and echoed, and with none held a process is spawned
\* and the statement left to the timer.
WrappersExecuteTheirStatement ==
    [][ /\ BootServer =>
              ExecutesStatement(<<"s", ".", "b", "o", "o", "t", ";">>)
        /\ RebootServer =>
              ExecutesStatement(<<"s", ".", "r", "e", "b", "o", "o", "t", ";">>)
        /\ KillServer =>
              ExecutesStatement(<<"s", ".", "q", "u", "i", "t", ";">>)
        /\ StopAllSounds =>
              ExecutesStatement(<<"C", "m", "d", "P", "e", "r", "i", "o", "d",
                                 ".", "r", "u", "n", ";">>)
      ]_vars

\* bootServer was invoked while the process of a start request was running:
\* `s.boot;` followed by ESC is on its input, and echoed
BootServerWitness ==
    /\ last.op = "execute"
    /\ sclangProcess = 1
    /\ procs[1].live
    /\ procs[1].written = << <<"s", ".", "b", "o", "o", "t", ";", ESC>> >>
    /\ postWindowOutput =
           << <<"\n", "-", ">", " ", "s", ".", "b", "o", "o", "t", ";", "\n">> >>
    /\ timers = <<>>

\* the characters of a text before its first line break
UpToLineBreak(text) ==
    LET nl == {i \in 1..Len(text) : text[i] = "\n"}
    IN  IF nl = {} THEN text
        ELSE SubSeq(text, 1, (CHOOSE i \in nl : \A j \in nl : i <= j) - 1)

\* C26: every step that writes a payload to a process appends exactly one
\* entry to the interpreter transcript: a line break, the prefix `-> `, the
\* first line of the trimmed fragment, `...` if and only if the trimmed
\* fragment holds a line break, and the line break that ends the line.
EchoIsFirstLineOfFragment ==
    [][ (\E p \in Pids : procs'[p].written # procs[p].written) =>
            LET clean == Trimmed(last'.text) IN
            postWindowOutput' = Append(postWindowOutput,
                <<"\n", "-", ">", " ">> \o UpToLineBreak(clean)
                    \o (IF \E i \in 1..Len(clean) : clean[i] = "\n"
                        THEN <<".", ".", ".">> ELSE <<>>)
                    \o <<"\n">>)
      ]_vars

\* the selection `( ` followed by a line break was sent: its trimmed text is
\* the single line `(`, echoed without the ellipsis
EchoWitness ==
    /\ last = Op("execute", <<"(", " ", "\n">>)
    /\ postWindowOutput = << <<"\n", "-", ">", " ", "(", "\n">> >>
    /\ procs[1].written = << <<"(", ESC>> >>

(***************************************************************************)
(* Vocabulary of the mode properties: the word around the cursor of the    *)
(* state, as a run of word characters of the document.                     *)
(***************************************************************************)
\* number of characters before the word that ends at the cursor
WordFrom ==
    CHOOSE s \in 0..Cursor :
        /\ \A i \in (s + 1)..Cursor : document[i] \in WordCharsOrTilde
        /\ s > 0 => document[s] \notin WordCharsOrTilde

\* number of characters up to the end of the word that starts at the cursor
WordTo ==
    CHOOSE e \in Cursor..Len(document) :
        /\ \A i \in (Cursor + 1)..e : document[i] \in WordChars
        /\ e < Len(document) => document[e + 1] \notin WordChars

\* the word typed up to the cursor
TypedWord == SubSeq(document, WordFrom + 1, Cursor)

\* the whole word under the cursor
WordUnderCursor == SubSeq(document, WordFrom + 1, WordTo)

\* the position a number of characters into the document
PositionOf(offset) ==
    CHOOSE position \in Positions(document) : Offset(position) = offset

\* C28: doComplete returns the names of the keyword, class and method
\* tables, in that order and in table order, whose lower-cased form starts
\* with the lower-cased word typed up to the cursor, whatever follows the
\* cursor, and marks the list complete.
CompletionMatchesTypedPrefix ==
    last.op = "doComplete" =>
        LET items == last.text.items
            typed == ToLowerCase(TypedWord)
        IN  /\ [i \in 1..Len(items) |-> items[i].label]
                  = SelectSeq(SC_KEYWORDS \o SC_CLASSES \o SC_METHODS,
                        LAMBDA n : IsPrefix(typed, ToLowerCase(n)))
            /\ ~last.text.isIncomplete

\* C29: doHover returns a hover exactly when the whole word under the
\* cursor is a non-empty key of the keyword, class or method documentation
\* table; the hover carries the entry of the first of these tables that
\* holds the word and the range of the word; otherwise doHover returns
\* null.
HoverIsExactMatch ==
    last.op = "doHover" =>
        LET w == WordUnderCursor IN
        IF w # <<>> /\ w \in KEYWORD_DOCS \cup CLASS_DOCS \cup METHOD_DOCS
        THEN /\ last.text.kind = "Hover"
             /\ last.text.contents.value =
                    [ table |-> IF w \in KEYWORD_DOCS THEN "KEYWORD_DOCS"
                                ELSE IF w \in CLASS_DOCS THEN "CLASS_DOCS"
                                ELSE "METHOD_DOCS",
                      key   |-> w ]
             /\ last.text.range =
                    [start |-> PositionOf(WordFrom), end |-> PositionOf(WordTo)]
        ELSE last.text.kind = "null"

\* C31: an execute of a non-blank fragment issued while the timer of an
\* earlier execute is pending and a process with an input stream is held
\* writes its payload in that step, spawns nothing and leaves the earlier
\* fragment to its timer; and a timer that writes puts its payload after
\* everything written to that process before.  So the later fragment
\* reaches the process input before the earlier one.
LaterExecuteOvertakesWarmUp ==
    [][ /\ (last'.op = "execute" /\ NonBlank(last'.text) /\ timers # <<>>
             /\ sclangProcess # NoProc /\ ~procs[sclangProcess].killed
             /\ procs[sclangProcess].stdin) =>
                /\ procs' = [procs EXCEPT ![sclangProcess].written =
                                Append(@, Trimmed(last'.text) \o <<ESC>>)]
                /\ timers' = timers
                /\ spawnCalls' = spawnCalls
        /\ last'.op = "timer" =>
                \A p \in Pids : IsPrefix(procs[p].written, procs'[p].written)
      ]_vars

\* `1` was executed with no process held and `2` before the timer of `1`
\* fired: one spawn, and the process has received `2` and then `1`
OvertakeWitness ==
    /\ last = Op("timer", <<"1">>)
    /\ execCalls = 2
    /\ spawnCalls = <<"sclang">>
    /\ Len(procs) = 1
    /\ procs[1].written = << <<"2", ESC>>, <<"1", ESC>> >>

\* C32: when a timer fires, the only process whose input can receive
\* anything is the one the handle references in that moment, whichever
\* process the execute call started; if that process has an input stream
\* and the fragment is not blank, it receives the payload.
TimerWritesToCurrentHandle ==
    [][ last'.op = "timer" =>
            /\ \A p \in Pids :
                   procs'[p].written # procs[p].written => p = sclangProcess
            /\ (NonBlank(last'.text) /\ sclangProcess # NoProc
                    /\ procs[sclangProcess].stdin) =>
                   procs'[sclangProcess].written =
                       Append(procs[sclangProcess].written,
                              Trimmed(last'.text) \o <<ESC>>)
      ]_vars

\* execute spawned the first process, stop signalled it, start spawned the
\* second, and then the timer fired: the payload is on the input of the
\* second process and the first has received nothing
NewerProcessWitness ==
    /\ last.op = "timer"
    /\ Len(procs) = 2
    /\ procs[1].killed
    /\ procs[1].written = <<>>
    /\ sclangProcess = 2
    /\ procs[2].written = << <<"a", "\n", "b", ESC>> >>
    /\ Len(sclangOutput) = 7

\* number of payloads written to the inputs of all processes
RECURSIVE Written(_)
Written(p) == IF p = 0 THEN 0 ELSE Len(procs[p].written) + Written(p - 1)

\* number of echo lines in the interpreter transcript
Echoes ==
    Cardinality({i \in 1..Len(postWindowOutput) :
                    IsPrefix(<<"\n", "-", ">", " ">>, postWindowOutput[i])})

\* number of non-blank fragments waiting for their timer
Pending == Cardinality({i \in 1..Len(timers) : NonBlank(timers[i])})

\* C33: in every state as many payloads have been written as echo lines
\* appended, and payloads written and non-blank fragments still waiting
\* together are no more than the execute calls made; a step writes at most
\* one payload, and their number together with the waiting fragments grows
\* only in an execute call with a non-blank fragment, by one.
WritesStemFromExecutes ==
    /\ [](/\ Written(Len(procs)) = Echoes
          /\ Written(Len(procs)) + Pending <= execCalls)
    /\ [][ LET before == Written(Len(procs))
               after  == Written(Len(procs))'
           IN  /\ after \in {before, before + 1}
               /\ after + Pending' <=
                     before + Pending
                        + (IF execCalls' = execCalls + 1 /\ NonBlank(last'.text)
                           THEN 1 ELSE 0)
         ]_vars

\* the one execute call made has led to one payload and one echo line, and
\* output of the interpreter stands in the transcript besides
OneWritePerExecuteWitness ==
    /\ execCalls = 1
    /\ timers = <<>>
    /\ Written(Len(procs)) = 1
    /\ Echoes = 1
    /\ Len(postWindowOutput) = 2

\* C34: once deactivate has run the handle is empty and every process
\* spawned that is still running has been sent a termination signal.
DeactivateStopsEveryProcess ==
    deactivated =>
        /\ sclangProcess = NoProc
        /\ \A p \in Pids : procs[p].live => procs[p].signals > 0

====
